---- MODULE Spec2Model ----
(***************************************************************************)
(* Model of the search bar (gui/src/components/search/Search.js,           *)
(* NewSearchBar) and of the filter registry (FilterRegistry) of the NOMAD  *)
(* GUI.                                                                    *)
(*                                                                         *)
(* Strings.  A JavaScript string is modelled as a sequence of tokens.  A   *)
(* token is a maximal piece of text the regular expressions of the search  *)
(* bar never look into: a word (written as its dotted path, the sequence   *)
(* of its dot-separated segments), or one of the characters the code       *)
(* inspects one by one: a digit, "<", ">", "=" or a blank.  The string     *)
(* "results.material.n_elements" is <<<<"results","material",              *)
(* "n_elements">>>>, the string "n_elements < 3" is                        *)
(* <<<<"n_elements">>, Space, Lt, Space, <<"3">>>>.                        *)
(***************************************************************************)
EXTENDS Integers, Sequences, FiniteSets, TLC

VARIABLES
  inputValue,         \* useState('')     the text of the input box
  error,              \* useState(false)  validation text, or "false"/"null"/"undefined"
  open,               \* useState(false)  whether the suggestion popup is open
  suggestions,        \* useState([])     server-backed suggestions shown
  loading,            \* useState(false)  the progress indicator
  inflight,           \* api.suggestions() promises not yet settled, in issue order
  setFilterCalls,     \* the calls of setFilter made by the last handler
  exception,          \* the exception that escaped the last handler, or "none"
  reqCount,           \* number of suggestion requests issued so far
  answered,           \* highest id of a request whose response has arrived, 0 if none
  shown,              \* id of the request whose response `suggestions` shows, 0 if none
  filterData,         \* FilterRegistry: name -> config data
  filterKeys,         \* Object.keys(filterData), in insertion order
  filterGroups,       \* FilterRegistry: group -> set of names
  filterAbbreviations, \* FilterRegistry: full name -> abbreviation
  filterFullnames,    \* FilterRegistry: abbreviation -> full name
  phase,              \* the registry module: "register", "built" or "failed" (it threw)
  regCalls,           \* number of registerFilter calls made so far
  oldQuery,           \* the query being transformed: option filter -> selected keys
  newQuery,           \* the query being built: key -> the Set object stored under it
  objects,            \* the Set objects created so far, by reference
  pending,            \* option filters of oldQuery whose setter is still to be called
  held,               \* the values of the target filter in newQuery before any setter
  queryPhase,         \* "idle", or "transform" while a query is being built
  lastRequest,        \* the request pagination the table's pagination was combined from
  lastResponse,       \* the response pagination it was combined from
  pagination,         \* Datatable: the pagination object of the context
  paginator,          \* the pagination child of DatatableTable: "page", "loadmore", "scroll"
  selected,           \* Datatable: the selection, 'all' or an array of rows
  prevSelected,       \* the selection before the last step of the table
  emitted,            \* whether the last handler gave a new object to its callback
  tablePhase,         \* "init", "combined" (just mounted) or "used"
  declared,           \* the columns as they were declared
  columns,            \* the column objects, which addColumnDefaults updates in place
  moreDefaults,       \* the moreDefaults the columns are completed with
  applied,            \* number of times addColumnDefaults was applied to the columns
  elements,           \* the Set of selected element names, in insertion order
  exclusive,          \* oldQuery.exclusive
  elementsQuery,      \* what the elements setter wrote into an empty newQuery
  elementsSet,        \* whether the setter has run on the current selection
  shownColumns,       \* Datatable: useState of the shown columns, an array of columns
  staticOptions,      \* getSuggestions(...).options
  staticMinLength,    \* the minLength the suggestions were built with
  filterInput,        \* the input last given to filter
  filterResult,       \* what filter returned for it
  suggestPhase,       \* "none", "built" or "filtered"
  renderData,         \* DatatableTable: the data of the context
  renderPageSize,     \* DatatableTable: pagination.page_size of the context
  renderChild,        \* DatatableTable: its child, "none", "page", "loadmore", "scroll"
  renderedRows,       \* the rows of data it renders a DatatableRow for
  renderedFiller,     \* the number of rows the height of its filler row stands for
  materialNames,      \* mapping of field name from entry -> material
  entryNames,         \* mapping of field name from material -> entry
  equivA,             \* isEquivalent: the object a of the last comparison
  equivB,             \* isEquivalent: the object b of the last comparison
  equivAB,            \* the value of isEquivalent(a, b)
  equivBA             \* the value of isEquivalent(b, a)

barVars == <<inputValue, error, open, suggestions, loading, inflight,
             setFilterCalls, exception, reqCount, answered, shown>>
regVars == <<filterData, filterKeys, filterGroups, filterAbbreviations,
             filterFullnames, phase, regCalls>>
queryVars == <<oldQuery, newQuery, objects, pending, held, queryPhase>>
tableVars ==
  <<lastRequest, lastResponse, pagination, paginator, selected, prevSelected, emitted,
    tablePhase>>
columnVars == <<declared, columns, moreDefaults, applied>>
elementVars == <<elements, exclusive, elementsQuery, elementsSet>>
visibilityVars == <<shownColumns>>
suggestVars == <<staticOptions, staticMinLength, filterInput, filterResult, suggestPhase>>
renderVars == <<renderData, renderPageSize, renderChild, renderedRows, renderedFiller>>
nameVars == <<materialNames, entryNames>>
equivVars == <<equivA, equivB, equivAB, equivBA>>
callVars == <<elementVars, visibilityVars, suggestVars, renderVars, nameVars, equivVars>>
coreVars == <<barVars, regVars, queryVars, tableVars, columnVars>>
vars == <<coreVars, callVars>>

(***************************************************************************)
(* Bounds of the model.                                                    *)
(***************************************************************************)
MaxLen == 3        \* longest free-form input of the parser specification
MaxTyped == 2      \* longest input typed in the search-bar specification
MaxRequests == 2   \* suggestion requests issued in one behaviour
MaxRegs == 3       \* registerFilter calls of one registry build
MaxPage == 2       \* pages the page pagination can go to
MaxRows == 2       \* rows of the table's data
MaxApplied == 2    \* times addColumnDefaults is applied to the same columns
MaxChars == 3      \* longest value suggestions are built for
MaxInput == 2      \* longest input the suggestions are filtered with
MaxData == 5       \* rows of the data a table is rendered with
MaxPageSize == 3   \* largest page_size a table is rendered with
MaxNames == 4      \* search quantities the name mappings are built for

(***************************************************************************)
(* Tokens and string helpers.                                              *)
(***************************************************************************)
Lt == <<"<">>
Gt == <<">">>
Eq == <<"=">>
Space == <<" ">>
undefined == <<>>               \* what Map.get gives for a missing key
null == <<>>                    \* what String.match gives when nothing matches
NaN == -1                       \* inputs hold no sign: every parsed number is >= 0

DigitValue ==
  [c \in {"0", "1", "2", "3", "4", "5", "6", "7", "8", "9"} |->
     CASE c = "0" -> 0 [] c = "1" -> 1 [] c = "2" -> 2 [] c = "3" -> 3
       [] c = "4" -> 4 [] c = "5" -> 5 [] c = "6" -> 6 [] c = "7" -> 7
       [] c = "8" -> 8 [] c = "9" -> 9]
IsDigit(t) == Len(t) = 1 /\ t[1] \in DOMAIN DigitValue

Str(path) == <<path>>           \* the string that is one word

NonSpace(s) == {i \in 1..Len(s) : s[i] # Space}
MinOf(S) == CHOOSE x \in S : \A y \in S : x <= y
MaxOf(S) == CHOOSE x \in S : \A y \in S : x >= y
\* String.prototype.trim
Trim(s) ==
  IF NonSpace(s) = {} THEN <<>>
  ELSE SubSeq(s, MinOf(NonSpace(s)), MaxOf(NonSpace(s)))
From(s, i) == SubSeq(s, i, Len(s))
Upto(s, i) == SubSeq(s, 1, i)

\* Number.parseFloat: blanks are skipped, then the longest numeric prefix is
\* read; NaN when there is none.
RECURSIVE ParseDigits(_, _, _)
ParseDigits(s, i, acc) ==
  IF i > Len(s) \/ ~IsDigit(s[i]) THEN acc
  ELSE ParseDigits(s, i + 1, acc * 10 + DigitValue[s[i][1]])
parseFloat(s) ==
  LET t == Trim(s)
  IN IF t = <<>> \/ ~IsDigit(t[1]) THEN NaN ELSE ParseDigits(t, 1, 0)
isNaN(x) == x = NaN

\* String.prototype.startsWith on strings given char by char
startsWith(s, prefix) ==
  Len(s) >= Len(prefix) /\ SubSeq(s, 1, Len(prefix)) = prefix

Range(f) == {f[x] : x \in DOMAIN f}
\* Map.prototype.get / object lookup with a string key
MapGet(map, s) ==
  IF Len(s) = 1 /\ s[1] \in DOMAIN map THEN map[s[1]] ELSE undefined

(***************************************************************************)
(* searchQuantities.json is generated data (python -m nomad.cli dev        *)
(* search-quantities); the model holds a table with one quantity of each   *)
(* kind the search bar distinguishes.  The type of an Enum quantity holds  *)
(* the array of its values as type_data, that of every other quantity a    *)
(* string.                                                                 *)
(***************************************************************************)
qNElements == <<"results", "material", "n_elements">>
qStructuralType == <<"results", "material", "structural_type">>
qMaterialName == <<"results", "material", "material_name">>
qBandGapValue == <<"results", "properties", "band_gap", "value">>
qBulkModulusValue == <<"results", "properties", "bulk_modulus", "value">>
qDensity == <<"results", "properties", "density">>
qEntryId == <<"entry_id">>

searchQuantityKeys ==
  <<qNElements, qStructuralType, qMaterialName, qBandGapValue,
    qBulkModulusValue, qDensity, qEntryId>>
searchQuantities ==
  (qNElements :> [type |-> [type_kind |-> "python", type_data |-> <<"i", "n", "t">>],
                  suggestion |-> FALSE])
  @@ (qStructuralType :> [type |-> [type_kind |-> "Enum", type_data |-> <<"bulk", "2D">>],
                          suggestion |-> TRUE])
  @@ (qMaterialName :> [type |-> [type_kind |-> "python", type_data |-> <<"s", "t", "r">>],
                        suggestion |-> TRUE])
  @@ (qBandGapValue :> [type |-> [type_kind |-> "numpy",
                                  type_data |-> <<"f", "l", "o", "a", "t", "6", "4">>],
                        suggestion |-> FALSE])
  @@ (qBulkModulusValue :> [type |-> [type_kind |-> "numpy",
                                      type_data |-> <<"f", "l", "o", "a", "t", "6", "4">>],
                            suggestion |-> FALSE])
  @@ (qDensity :> [type |-> [type_kind |-> "numpy",
                             type_data |-> <<"f", "l", "o", "a", "t", "6", "4">>],
                   suggestion |-> FALSE])
  @@ (qEntryId :> [type |-> [type_kind |-> "python", type_data |-> <<"s", "t", "r">>],
                   suggestion |-> TRUE])

\* The `quantities` property of the search bar: the quantities it serves.
quantities == <<qNElements, qStructuralType, qMaterialName, qBandGapValue>>
quantitySet == Range(quantities)

\* Only a string has startsWith; the type_data of an Enum is an array.
IsArray(type_data, type_kind) == type_kind = "Enum"

(***************************************************************************)
(* Search.js, module level: the abbreviation maps of the search bar.       *)
(***************************************************************************)
Last(path) == path[Len(path)]
\* name.split('.').pop()
Abbreviation(name) == <<Last(name)>>

quantityNames ==
  SelectSeq(searchQuantityKeys, LAMBDA q : q[1] = "results")
abbreviationList ==
  [i \in DOMAIN quantityNames |-> Abbreviation(quantityNames[i])]
nonUniques ==
  {abbreviationList[i] : i \in {k \in DOMAIN abbreviationList :
     \E j \in 1..(k - 1) : abbreviationList[j] = abbreviationList[k]}}
UniqueIdx == {i \in DOMAIN quantityNames : abbreviationList[i] \notin nonUniques}
quantityAbbreviations ==
  [name \in {quantityNames[i] : i \in UniqueIdx} |-> Abbreviation(name)]
quantityFullnames ==
  [abbr \in {abbreviationList[i] : i \in UniqueIdx} |->
     quantityNames[CHOOSE i \in UniqueIdx : abbreviationList[i] = abbr]]

\* quantityAbbreviations.get(q) || q
DisplayName(q) ==
  IF q \in DOMAIN quantityAbbreviations THEN quantityAbbreviations[q] ELSE q
quantitySuggestions ==
  [i \in DOMAIN quantities |->
     [value |-> Str(DisplayName(quantities[i])), category |-> "quantity name"]]

opMap == ("<=" :> "lte") @@ (">=" :> "gte") @@ (">" :> "gt") @@ ("<" :> "lt")
opMapReverse == ("<=" :> "gte") @@ (">=" :> "lte") @@ (">" :> "lt") @@ ("<" :> "gt")

(***************************************************************************)
(* The three regular expressions of handleSubmit.  reString is             *)
(* \S(?:.*\S)?, a text that starts and ends with a non-blank; the groups   *)
(* are greedy, so the engine takes the longest first group for which the   *)
(* rest of the expression still matches, and `>=` before `>`.  A match is  *)
(* the sequence of its groups, null when the input does not match.         *)
(***************************************************************************)
HasText(s) == NonSpace(s) # {}

\* ^\s*(reString)\s*=\s*(reString)\s*$
EqualsAt(s) ==
  {i \in 1..Len(s) : s[i] = Eq /\ HasText(Upto(s, i - 1)) /\ HasText(From(s, i + 1))}
MatchEquals(s) ==
  IF EqualsAt(s) = {} THEN null
  ELSE LET i == MaxOf(EqualsAt(s))
       IN <<Trim(Upto(s, i - 1)), Trim(From(s, i + 1))>>

\* (<|>=?) at position i, followed by text: the widths the operator can take
OpWidths(s, i) ==
  {w \in {1, 2} :
     /\ i + w - 1 <= Len(s)
     /\ \/ w = 1 /\ s[i] \in {Lt, Gt}
        \/ w = 2 /\ s[i] = Gt /\ s[i + 1] = Eq}
OpText(s, i, w) ==
  IF s[i] = Lt THEN "<" ELSE IF w = 2 THEN ">=" ELSE ">"

\* ^\s*(reString)\s*(<|>=?)\s*(reString)\s*$
LtegteAt(s) ==
  {i \in 1..Len(s) :
     HasText(Upto(s, i - 1)) /\ \E w \in OpWidths(s, i) : HasText(From(s, i + w))}
MatchLtegte(s) ==
  IF LtegteAt(s) = {} THEN null
  ELSE LET i == MaxOf(LtegteAt(s))
           w == MaxOf({v \in OpWidths(s, i) : HasText(From(s, i + v))})
       IN <<Trim(Upto(s, i - 1)), <<OpText(s, i, w)>>, Trim(From(s, i + w))>>

\* ^\s*(reString)\s*(<|>=?)\s*(reString)\s*(<|>=?)\s*(reString)\s*$
\* The tail after the first operator is matched like the single bound.
SandwichAt(s) ==
  {i \in 1..Len(s) :
     HasText(Upto(s, i - 1))
     /\ \E w \in OpWidths(s, i) : MatchLtegte(From(s, i + w)) # null}
MatchSandwich(s) ==
  IF SandwichAt(s) = {} THEN null
  ELSE LET i == MaxOf(SandwichAt(s))
           w == MaxOf({v \in OpWidths(s, i) : MatchLtegte(From(s, i + v)) # null})
           tail == MatchLtegte(From(s, i + w))
       IN <<Trim(Upto(s, i - 1)), <<OpText(s, i, w)>>, tail[1], tail[2], tail[3]>>

(***************************************************************************)
(* handleSubmit, as the function of the input it is: what it does with     *)
(* the text, before the state is updated.                                  *)
(*   kind "return": the early return on blank input                        *)
(*   kind "error":  setError(error) and return                             *)
(*   kind "ok":     setFilter([name, value]), the input is cleared         *)
(*   kind "throw":  an exception leaves the handler                        *)
(* A query value is the literal text (equality) or an object of bounds,    *)
(* written as the set of its <<key, number>> entries.                      *)
(***************************************************************************)
UnknownQuantity == "Unknown quantity name"
InvalidNumber == "Invalid number"
UnsupportedRangeType == "Cannot perform range query for a non-numeric quantity."
InvalidQuery == "Invalid query"
Messages == {UnknownQuantity, InvalidNumber, UnsupportedRangeType, InvalidQuery}

NoValue == [kind |-> "none", text |-> <<>>, bounds |-> {}]
TextValue(s) == [kind |-> "text", text |-> s, bounds |-> {}]
BoundsValue(b) == [kind |-> "bounds", text |-> <<>>, bounds |-> b]
\* obj[key] = val
ObjSet(obj, key, val) == {e \in obj : e[1] # key} \cup {<<key, val>>}

Returned == [kind |-> "return", error |-> "", name |-> undefined, value |-> NoValue]
Failed(msg) == [kind |-> "error", error |-> msg, name |-> undefined, value |-> NoValue]
Threw == [kind |-> "throw", error |-> "", name |-> undefined, value |-> NoValue]
Valid(name, value) == [kind |-> "ok", error |-> "", name |-> name, value |-> value]

\* !type.type_data.startsWith('int') && !type.type_data.startsWith('float')
\* "TypeError" when type_data has no startsWith
NonNumeric(fullname) ==
  LET type == searchQuantities[fullname].type
  IN IF IsArray(type.type_data, type.type_kind) THEN "TypeError"
     ELSE IF ~startsWith(type.type_data, <<"i", "n", "t">>)
              /\ ~startsWith(type.type_data, <<"f", "l", "o", "a", "t">>)
          THEN "yes" ELSE "no"

\* Equality query
SubmitEquals(equals) ==
  LET quantityName == equals[1]
      queryValue == equals[2]
      quantityFullname == MapGet(quantityFullnames, quantityName)
  IN IF quantityFullname \notin quantitySet THEN Failed(UnknownQuantity)
     ELSE Valid(quantityFullname, TextValue(queryValue))

\* queryValue[opMap[op]] = quantityValue
LtegteValue(op, isAQuantity, quantityValue) ==
  ObjSet({}, opMap[op], quantityValue)

\* A simple LTE/GTE query that checks the number before the names
SubmitLtegte_NumberFirst(ltegte) ==
  LET a == ltegte[1]
      op == ltegte[2][1]
      b == ltegte[3]
      aFullname == MapGet(quantityFullnames, a)
      bFullname == MapGet(quantityFullnames, b)
      isAQuantity == aFullname \in quantitySet
      isBQuantity == bFullname \in quantitySet
      quantityFullname == IF isAQuantity THEN aFullname ELSE bFullname
      quantityValue == parseFloat(IF isAQuantity THEN b ELSE a)
  IN IF isNaN(quantityValue) THEN Failed(InvalidNumber)
     ELSE IF ~isAQuantity /\ ~isBQuantity THEN Failed(UnknownQuantity)
     ELSE IF NonNumeric(quantityFullname) = "TypeError" THEN Threw
     ELSE IF NonNumeric(quantityFullname) = "yes" THEN Failed(UnsupportedRangeType)
     ELSE Valid(quantityFullname, BoundsValue(LtegteValue(op, isAQuantity, quantityValue)))

\* Simple LTE/GTE query
SubmitLtegte(ltegte) ==
  LET a == ltegte[1]
      op == ltegte[2][1]
      b == ltegte[3]
      aFullname == MapGet(quantityFullnames, a)
      bFullname == MapGet(quantityFullnames, b)
      isAQuantity == aFullname \in quantitySet
      isBQuantity == bFullname \in quantitySet
      quantityFullname == IF isAQuantity THEN aFullname ELSE bFullname
      quantityValue == parseFloat(IF isAQuantity THEN b ELSE a)
  IN IF ~isAQuantity /\ ~isBQuantity THEN Failed(UnknownQuantity)
     ELSE IF isNaN(quantityValue) THEN Failed(InvalidNumber)
     ELSE IF NonNumeric(quantityFullname) = "TypeError" THEN Threw
     ELSE IF NonNumeric(quantityFullname) = "yes" THEN Failed(UnsupportedRangeType)
     ELSE Valid(quantityFullname, BoundsValue(LtegteValue(op, isAQuantity, quantityValue)))

\* Sandwiched LTE/GTE query
SubmitSandwich(ltegteSandwich) ==
  LET a == ltegteSandwich[1]
      op1 == ltegteSandwich[2][1]
      b == ltegteSandwich[3]
      op2 == ltegteSandwich[4][1]
      c == ltegteSandwich[5]
      quantityFullname == MapGet(quantityFullnames, b)
      isBQuantity == quantityFullname \in quantitySet
      aValue == parseFloat(a)
      cValue == parseFloat(c)
  IN IF ~isBQuantity THEN Failed(UnknownQuantity)
     ELSE IF isNaN(aValue) \/ isNaN(cValue) THEN Failed(InvalidNumber)
     ELSE IF NonNumeric(quantityFullname) = "TypeError" THEN Threw
     ELSE IF NonNumeric(quantityFullname) = "yes" THEN Failed(UnsupportedRangeType)
     ELSE Valid(quantityFullname,
                BoundsValue(ObjSet(ObjSet({}, opMapReverse[op1], aValue),
                                   opMap[op2], cValue)))

\* A submission without the early return on a blank input
Submit_NoBlankReturn(input) ==
  IF MatchEquals(input) # null THEN SubmitEquals(MatchEquals(input))
  ELSE IF MatchLtegte(input) # null THEN SubmitLtegte(MatchLtegte(input))
  ELSE IF MatchSandwich(input) # null THEN SubmitSandwich(MatchSandwich(input))
  ELSE Failed(InvalidQuery)

\* The forms are tried in this order; a form that matches settles the
\* submission, with a filter or with an error.
Submit(input) ==
  IF Len(Trim(input)) = 0 THEN Returned
  ELSE IF MatchEquals(input) # null THEN SubmitEquals(MatchEquals(input))
  ELSE IF MatchLtegte(input) # null THEN SubmitLtegte(MatchLtegte(input))
  ELSE IF MatchSandwich(input) # null THEN SubmitSandwich(MatchSandwich(input))
  ELSE Failed(InvalidQuery)

(***************************************************************************)
(* NewSearchBar: the handlers.                                             *)
(***************************************************************************)
\* quantitySet.has(s) for a string s
IsQuantity(s) == Len(s) = 1 /\ s[1] \in quantitySet

\* value.split('=', 2): the pieces between the "=", at most the first two
EqIdx(s) == {i \in 1..Len(s) : s[i] = Eq}
SplitEq(s) ==
  IF EqIdx(s) = {} THEN <<s>>
  ELSE LET i == MinOf(EqIdx(s))
           rest == From(s, i + 1)
       IN <<Upto(s, i - 1),
            IF EqIdx(rest) = {} THEN rest ELSE Upto(rest, MinOf(EqIdx(rest)) - 1)>>

\* The quantities asked for and the text to complete, from the trimmed input
SuggestionQuery(value) ==
  LET split == SplitEq(value)
      quantityName == Trim(split[1])
      quantityFullname == MapGet(quantityFullnames, quantityName)
  IN IF Len(split) = 2 /\ IsQuantity(quantityName)
       THEN [list |-> <<quantityName[1]>>, value |-> Trim(split[2])]
     ELSE IF Len(split) = 2 /\ quantityFullname \in quantitySet
       THEN [list |-> <<quantityFullname>>, value |-> Trim(split[2])]
     ELSE [list |-> quantities, value |-> value]

\* quantityList.filter(q => searchQuantities[q].suggestion)
FilteredList(list) == SelectSeq(list, LAMBDA q : searchQuantities[q].suggestion)

\* The .then callback: the options built from the response data
RECURSIVE Res(_, _)
Res(filteredList, data) ==
  IF filteredList = <<>> THEN <<>>
  ELSE LET q == Head(filteredList)
           name == DisplayName(q)
           mine == IF q \in DOMAIN data
                     THEN [i \in DOMAIN data[q] |->
                             [value |-> <<name, Eq>> \o data[q][i].value,
                              category |-> Str(name)]]
                     ELSE <<>>
       IN mine \o Res(Tail(filteredList), data)

\* What the suggestions endpoint may answer to a request: nothing, or one
\* completion (the text itself) for each quantity asked for.
NoData == [q \in {} |-> <<>>]
ServerData(req) ==
  {NoData, [q \in Range(req.list) |-> <<[value |-> req.value]>>]}

RemoveAt(seq, k) == SubSeq(seq, 1, k - 1) \o SubSeq(seq, k + 1, Len(seq))
Larger(a, b) == IF a >= b THEN a ELSE b

\* An input change that leaves the error as it is
ClearedError_Kept(e) == e

\* setError(error => error ? undefined : null)
ClearedError(e) == IF e \in Messages THEN "undefined" ELSE "null"

handleInputChange(value, reason) ==
  LET trimmed == Trim(value)
      noLookup == Len(trimmed) = 0 \/ reason # "input"
      query == SuggestionQuery(trimmed)
      request == ~noLookup /\ Len(query.value) > 0
  IN /\ request => reqCount < MaxRequests
     /\ error' = ClearedError(error)
     /\ inputValue' = value
     /\ suggestions' = IF noLookup THEN <<>> ELSE suggestions
     /\ shown' = IF noLookup THEN 0 ELSE shown
     /\ loading' = IF noLookup THEN loading ELSE TRUE
     /\ reqCount' = IF request THEN reqCount + 1 ELSE reqCount
     /\ inflight' =
          IF request
            THEN Append(inflight, [id |-> reqCount + 1,
                                   list |-> FilteredList(query.list),
                                   value |-> query.value])
            ELSE inflight
     /\ setFilterCalls' = <<>>
     /\ exception' = "none"
     /\ UNCHANGED <<open, answered, regVars, queryVars, tableVars, columnVars, callVars>>

\* api.suggestions(...) resolves: .then(setSuggestions(res)), .finally(setLoading(false))
SuggestionsResolve ==
  \E k \in DOMAIN inflight : \E data \in ServerData(inflight[k]) :
    /\ suggestions' = Res(inflight[k].list, data)
    /\ shown' = inflight[k].id
    /\ answered' = Larger(answered, inflight[k].id)
    /\ loading' = FALSE
    /\ inflight' = RemoveAt(inflight, k)
    /\ setFilterCalls' = <<>>
    /\ exception' = "none"
    /\ UNCHANGED <<inputValue, error, open, reqCount, regVars, queryVars, tableVars, columnVars, callVars>>

\* api.suggestions(...) rejects: only .finally(setLoading(false)) runs
SuggestionsReject ==
  \E k \in DOMAIN inflight :
    /\ loading' = FALSE
    /\ inflight' = RemoveAt(inflight, k)
    /\ setFilterCalls' = <<>>
    /\ exception' = "none"
    /\ UNCHANGED <<inputValue, error, open, suggestions, reqCount, answered,
                   shown, regVars, queryVars, tableVars, columnVars, callVars>>

handleSubmit ==
  LET r == Submit(inputValue)
  IN /\ error' = IF r.kind = "error" THEN r.error ELSE error
     /\ setFilterCalls' =
          IF r.kind = "ok" THEN <<[name |-> r.name, value |-> r.value]>> ELSE <<>>
     /\ inputValue' = IF r.kind = "ok" THEN <<>> ELSE inputValue
     /\ open' = IF r.kind = "ok" THEN FALSE ELSE open
     /\ exception' = IF r.kind = "throw" THEN "TypeError" ELSE "none"
     /\ UNCHANGED <<suggestions, loading, inflight, reqCount, answered, shown, regVars, queryVars, tableVars, columnVars, callVars>>

\* Handle clear button; the button is there while the input holds text
handleClose ==
  /\ Len(inputValue) > 0
  /\ inputValue' = <<>>
  /\ setFilterCalls' = <<>>
  /\ exception' = "none"
  /\ UNCHANGED <<error, open, suggestions, loading, inflight, reqCount, answered,
                 shown, regVars, queryVars, tableVars, columnVars, callVars>>

onOpen ==
  /\ open' = TRUE
  /\ setFilterCalls' = <<>>
  /\ exception' = "none"
  /\ UNCHANGED <<inputValue, error, suggestions, loading, inflight, reqCount,
                 answered, shown, regVars, queryVars, tableVars, columnVars, callVars>>

onClose ==
  /\ open' = FALSE
  /\ setFilterCalls' = <<>>
  /\ exception' = "none"
  /\ UNCHANGED <<inputValue, error, suggestions, loading, inflight, reqCount,
                 answered, shown, regVars, queryVars, tableVars, columnVars, callVars>>

BarInit ==
  /\ inputValue = <<>>
  /\ error = "false"
  /\ open = FALSE
  /\ suggestions = <<>>
  /\ loading = FALSE
  /\ inflight = <<>>
  /\ setFilterCalls = <<>>
  /\ exception = "none"
  /\ reqCount = 0
  /\ answered = 0
  /\ shown = 0

(***************************************************************************)
(* FilterRegistry.  A filter name is the path of its dot-separated         *)
(* segments.  Of the data saveFilter keeps for a filter the model holds    *)
(* the fields the registry itself decides on: multiple, exclusive,         *)
(* queryMode, global and default; a field holds "undefined", "true",       *)
(* "false" or a string.                                                    *)
(***************************************************************************)
Truthy(v) == v \notin {"undefined", "false", ""}
NoConfig ==
  [multiple |-> "undefined", exclusive |-> "undefined", queryMode |-> "undefined",
   global |-> "undefined", default |-> "undefined"]

\* Presets for different kind of quantities
termQuantity == NoConfig
termQuantityAll ==
  [NoConfig EXCEPT !.exclusive = "false", !.multiple = "true", !.queryMode = "all"]
noAggQuantity == NoConfig
nestedQuantity == NoConfig
noQueryQuantity == [NoConfig EXCEPT !.multiple = "false", !.global = "true"]
numberHistogramQuantity == [NoConfig EXCEPT !.multiple = "false", !.exclusive = "false"]

\* The registerFilter calls of the module a registry is built from
Sub(name, config) == [name |-> name, config |-> config]
Declaration(name, group, config, subQuantities) ==
  [name |-> name, group |-> group, config |-> config, subQuantities |-> subQuantities]
Declarations ==
  {Declaration(<<"results", "eln", "sections">>, "eln", termQuantity, <<>>),
   Declaration(<<"sections">>, "processed_data_quantities",
               [noAggQuantity EXCEPT !.queryMode = "all"], <<>>),
   Declaration(<<"results", "material", "n_elements">>, "elements",
               numberHistogramQuantity, <<>>),
   Declaration(<<"results", "properties", "mechanical", "bulk_modulus">>, "mechanical",
               nestedQuantity,
               <<Sub(<<"type">>, termQuantity), Sub(<<"value">>, numberHistogramQuantity)>>),
   Declaration(<<"results", "properties", "mechanical", "shear_modulus">>, "mechanical",
               nestedQuantity,
               <<Sub(<<"type">>, termQuantity), Sub(<<"value">>, numberHistogramQuantity)>>),
   Declaration(<<"results", "properties", "available_properties">>, "properties",
               termQuantityAll, <<>>),
   Declaration(<<"exclusive">>, "undefined",
               [noQueryQuantity EXCEPT !.default = "false"], <<>>)}

\* The registry as saveFilter reads and writes it
Registry ==
  [data |-> filterData, keys |-> filterKeys, groups |-> filterGroups, threw |-> FALSE]

\* filterGroups[group] ? filterGroups[group].add(name) : filterGroups[group] = new Set([name])
AddToGroup(groups, group, name) ==
  IF group = "undefined" THEN groups
  ELSE (group :> ((IF group \in DOMAIN groups THEN groups[group] ELSE {}) \cup {name}))
       @@ groups

\* saveFilter; `data` is the object already stored under the name when there
\* is one, so what is written to it before a throw stays written.
saveFilter(reg, name, group, config, parent) ==
  LET known == name \in DOMAIN reg.data
      data0 == IF known THEN reg.data[name] ELSE NoConfig
      data1 == [data0 EXCEPT
                  !.multiple = IF config.multiple = "undefined" THEN "true"
                               ELSE config.multiple,
                  !.exclusive = IF config.exclusive = "undefined" THEN "true"
                                ELSE config.exclusive]
      data2 == [data1 EXCEPT
                  !.queryMode = IF Truthy(config.queryMode) THEN config.queryMode
                                ELSE "any",
                  !.global = config.global]
      data3 == [data2 EXCEPT !.default = config.default]
      groups == AddToGroup(reg.groups, group, name)
      Stored(d) == IF known THEN (name :> d) @@ reg.data ELSE reg.data
  IN IF reg.threw THEN reg
     ELSE IF Truthy(data1.queryMode) /\ ~Truthy(data1.multiple)
       THEN [data |-> Stored(data1), keys |-> reg.keys, groups |-> groups, threw |-> TRUE]
     ELSE IF Truthy(config.default) /\ ~Truthy(data2.global)
       THEN [data |-> Stored(data2), keys |-> reg.keys, groups |-> groups, threw |-> TRUE]
     ELSE [data |-> (name :> data3) @@ reg.data,
           keys |-> IF known THEN reg.keys ELSE Append(reg.keys, name),
           groups |-> groups,
           threw |-> FALSE]

\* for (const subConfig of subQuantities) saveFilter(`${name}.${subConfig.name}`, ...)
RECURSIVE SaveSubFilters(_, _, _, _)
SaveSubFilters(reg, name, group, subQuantities) ==
  IF subQuantities = <<>> THEN reg
  ELSE SaveSubFilters(
         saveFilter(reg, name \o Head(subQuantities).name, group,
                    Head(subQuantities).config, name),
         name, group, Tail(subQuantities))

registerFilter(name, group, config, subQuantities) ==
  LET reg == SaveSubFilters(saveFilter(Registry, name, group, config, "undefined"),
                            name, group, subQuantities)
  IN /\ phase = "register"
     /\ regCalls < MaxRegs
     /\ regCalls' = regCalls + 1
     /\ filterData' = reg.data
     /\ filterKeys' = reg.keys
     /\ filterGroups' = reg.groups
     /\ phase' = IF reg.threw THEN "failed" ELSE "register"
     /\ UNCHANGED <<filterAbbreviations, filterFullnames, barVars, queryVars, tableVars, columnVars, callVars>>

\* [...Object.keys(filterData)].map(fullname => [fullname, fullname.split('.').pop()])
nameAbbreviationPairs(keys) ==
  [i \in DOMAIN keys |-> <<keys[i], Abbreviation(keys[i])>>]

\* A first loop that never increments a count
CountAbbreviations_NoIncrement(pairs) ==
  [abbreviation \in {pairs[i][2] : i \in DOMAIN pairs} |-> 1]

\* First loop: how many names have the abbreviation
CountAbbreviations(pairs) ==
  [abbreviation \in {pairs[i][2] : i \in DOMAIN pairs} |->
     Cardinality({i \in DOMAIN pairs : pairs[i][2] = abbreviation})]
\* First loop: every full name is its own abbreviation and full name
IdentityMap(pairs) == [fullname \in {pairs[i][1] : i \in DOMAIN pairs} |-> fullname]

\* A second loop that abbreviates a name when at most two names share it
UniqueAbbreviation_AtMostTwo(abbreviations, abbreviation) ==
  abbreviations[abbreviation] <= 2

\* abbreviations[abbreviation] === 1
UniqueAbbreviation(abbreviations, abbreviation) == abbreviations[abbreviation] = 1

\* Second loop, from pair i on
RECURSIVE AssignAbbreviations(_, _, _, _)
AssignAbbreviations(pairs, i, abbreviations, maps) ==
  IF i > Len(pairs) THEN maps
  ELSE LET fullname == pairs[i][1]
           abbreviation == pairs[i][2]
       IN AssignAbbreviations(pairs, i + 1, abbreviations,
            IF UniqueAbbreviation(abbreviations, abbreviation)
              THEN [filterAbbreviations |->
                      (fullname :> abbreviation) @@ maps.filterAbbreviations,
                    filterFullnames |->
                      (abbreviation :> fullname) @@ maps.filterFullnames]
              ELSE maps)

\* The filter abbreviation mapping, done after all filters have been registered
BuildAbbreviations ==
  LET pairs == nameAbbreviationPairs(filterKeys)
      maps == AssignAbbreviations(pairs, 1, CountAbbreviations(pairs),
                [filterAbbreviations |-> IdentityMap(pairs),
                 filterFullnames |-> IdentityMap(pairs)])
  IN /\ phase = "register"
     /\ phase' = "built"
     /\ filterAbbreviations' = maps.filterAbbreviations
     /\ filterFullnames' = maps.filterFullnames
     /\ UNCHANGED <<filterData, filterKeys, filterGroups, regCalls, barVars, queryVars, tableVars, columnVars, callVars>>

\* The registry before any filter is registered
RegInit ==
  /\ filterData = <<>>
  /\ filterKeys = <<>>
  /\ filterGroups = <<>>
  /\ filterAbbreviations = <<>>
  /\ filterFullnames = <<>>
  /\ phase = "register"
  /\ regCalls = 0

(***************************************************************************)
(* registerFilterOptions: the value setter of an option-subset filter.     *)
(* A query maps keys to Set objects; a Set is held by reference, so two    *)
(* keys can hold the same object.                                          *)
(***************************************************************************)
target == "results.properties.available_properties"
targetAll == "results.properties.available_properties:all"

\* The option-subset filters of the module and the keys of their options
OptionFilters ==
  ("electronic_properties" :> {"band_structure_electronic", "dos_electronic"})
  @@ ("mechanical_properties" :> {"bulk_modulus", "shear_modulus"})
  @@ ("spectroscopic_properties" :> {"eels"})

\* set: (newQuery, oldQuery, value) => { ... }
OptionsValueSet(name) ==
  LET value == oldQuery[name]
      fresh == Len(objects) + 1
      \* const data = newQuery[target] || new Set()
      isNew == target \notin DOMAIN newQuery
      data == IF isNew THEN fresh ELSE newQuery[target]
      created == IF isNew THEN Append(objects, {}) ELSE objects
  IN /\ queryPhase = "transform"
     /\ name \in pending
     \* value.forEach((item) => { data.add(item) })
     /\ objects' = [created EXCEPT ![data] = @ \cup value]
     \* newQuery[`${target}:all`] = data
     /\ newQuery' = (targetAll :> data) @@ newQuery
     /\ pending' = pending \ {name}
     /\ UNCHANGED <<oldQuery, held, queryPhase, barVars, regVars, tableVars, columnVars, callVars>>

\* A query with selections for some option filters is about to be turned
\* into its API form; the target filter's own selection, when there is one,
\* is already in the new query, under the name of the target or under the
\* name its query mode gives it.
Selections(name) == (SUBSET OptionFilters[name]) \ {{}}
OldQueries ==
  UNION {[names -> UNION {Selections(n) : n \in names}] : names \in SUBSET DOMAIN OptionFilters}
TargetSelections == (SUBSET {"eels", "dos_electronic"}) \ {{}}
StartTransform ==
  /\ queryPhase = "idle"
  /\ queryPhase' = "transform"
  /\ \E q \in OldQueries :
       /\ \A n \in DOMAIN q : q[n] \in Selections(n)
       /\ oldQuery' = q
       /\ pending' = DOMAIN q
  /\ \/ /\ held' = {}
        /\ newQuery' = <<>>
        /\ objects' = <<>>
     \/ \E own \in TargetSelections, key \in {target, targetAll} :
          /\ held' = own
          /\ newQuery' = (key :> 1)
          /\ objects' = <<own>>
  /\ UNCHANGED <<barVars, regVars, tableVars, columnVars, callVars>>

QueryInit ==
  /\ oldQuery = <<>>
  /\ newQuery = <<>>
  /\ objects = <<>>
  /\ pending = {}
  /\ held = {}
  /\ queryPhase = "idle"

(***************************************************************************)
(* Datatable.js.  A pagination object is a record of its fields; a field   *)
(* holds `undefined` or <<v>> for the value v.  A missing response         *)
(* (response?.x) reads like one whose fields are all undefined.            *)
(***************************************************************************)
Present(v) == <<v>>
\* The operand of ||: undefined, 0 and '' are falsy
FalsyNumber(f) == f = undefined \/ f[1] = 0
FalsyString(f) == f = undefined \/ f[1] = ""
OrNumber(a, b) == IF FalsyNumber(a) THEN b ELSE a
OrString(a, b) == IF FalsyString(a) THEN b ELSE a

NoPagination ==
  [page_size |-> undefined, order_by |-> undefined, order |-> undefined,
   page |-> undefined, total |-> undefined, page_after_value |-> undefined,
   next_page_after_value |-> undefined]

combinePagination(req, resp) ==
  LET result ==
        [NoPagination EXCEPT
           !.page_size = OrNumber(req.page_size, resp.page_size),
           !.order_by = OrString(req.order_by, resp.order_by),
           !.order = OrString(req.order, resp.order),
           !.page = OrNumber(req.page, resp.page),
           !.total = resp.total]
  IN IF FalsyNumber(result.page)
       THEN [result EXCEPT
               !.page_after_value = OrString(req.page_after_value, resp.page_after_value),
               !.next_page_after_value = resp.next_page_after_value]
       ELSE result

\* Datatable: the pagination of the context when the properties give none
DefaultPagination ==
  [NoPagination EXCEPT
     !.page = Present(1), !.page_size = Present(MaxRows), !.total = Present(MaxRows)]

\* rowsPerPageOptions of a table with pageSizeValues = [5, 10]
pageSizeValues == {5, 10}
sortingColumns == {"entry_id", "upload_create_time"}
Rows == {[entry_id |-> i] : i \in 1..MaxRows}

\* The selection: the string 'all' or an array of rows
SelectedAll == [all |-> TRUE, rows |-> <<>>]
SelectedRows(rows) == [all |-> FALSE, rows |-> rows]

\* A handler gives the pagination p to onPaginationChanged
EmitPagination(p) ==
  /\ tablePhase # "init"
  /\ pagination' = p
  /\ emitted' = TRUE
  /\ tablePhase' = "used"
  /\ lastRequest' = NoPagination
  /\ lastResponse' = NoPagination
  /\ prevSelected' = selected
  /\ UNCHANGED <<paginator, selected, barVars, regVars, queryVars, columnVars, callVars>>

\* DatatablePagePagination
handleChangePage(newPage) ==
  /\ paginator = "page"
  /\ EmitPagination([pagination EXCEPT !.page = Present(newPage + 1)])

\* String(n) of a number n >= 0, the value of an option of the page-size select
RECURSIVE NumberText(_)
NumberText(n) ==
  LET digit == CHOOSE c \in DOMAIN DigitValue : DigitValue[c] = n % 10
  IN IF n < 10 THEN <<<<digit>>>> ELSE NumberText(n \div 10) \o <<<<digit>>>>
\* parseInt(text, 10)
parseInt(text) ==
  LET t == Trim(text)
  IN IF t = <<>> \/ ~IsDigit(t[1]) THEN NaN ELSE ParseDigits(t, 1, 0)

handleChangeRowsPerPage(value) ==
  /\ paginator = "page"
  /\ EmitPagination([pagination EXCEPT
                       !.page = Present(1), !.page_size = Present(parseInt(value))])

\* A sort click that always asks for the ascending order
createSortHandler_AlwaysAsc(column) ==
  EmitPagination([pagination EXCEPT !.order = Present("asc"), !.order_by = Present(column)])

\* DatatableHeader
createSortHandler(column) ==
  LET isAsc == pagination.order_by = Present(column) /\ pagination.order = Present("asc")
  IN EmitPagination([pagination EXCEPT
                       !.order = Present(IF isAsc THEN "desc" ELSE "asc"),
                       !.order_by = Present(column)])

\* DatatableLoadMorePagination: the button is there when there is a next
\* value that is not being loaded
handleClick ==
  /\ paginator = "loadmore"
  /\ ~FalsyString(pagination.next_page_after_value)
  /\ pagination.page_after_value # pagination.next_page_after_value
  /\ EmitPagination([pagination EXCEPT
                       !.page_after_value = pagination.next_page_after_value])

\* A load that does not look whether the next value is being loaded already
LoadMoreUpdate_NoInFlightTest(p) ==
  IF ~FalsyString(p.next_page_after_value)
    THEN [value |-> [p EXCEPT !.page_after_value = p.next_page_after_value],
          same |-> FALSE]
    ELSE [value |-> p, same |-> TRUE]

\* DatatableTable.handleLoadMore: the function given to onPaginationChanged;
\* `same` when it returns the object it was given
LoadMoreUpdate(p) ==
  IF ~FalsyString(p.next_page_after_value)
     /\ p.page_after_value # p.next_page_after_value
    THEN [value |-> [p EXCEPT !.page_after_value = p.next_page_after_value],
          same |-> FALSE]
    ELSE [value |-> p, same |-> TRUE]

\* InfiniteScroll calls loadMore while hasMore
handleLoadMore ==
  /\ tablePhase # "init"
  /\ paginator = "scroll"
  /\ ~FalsyString(pagination.next_page_after_value)
  /\ pagination' = LoadMoreUpdate(pagination).value
  /\ emitted' = ~LoadMoreUpdate(pagination).same
  /\ tablePhase' = "used"
  /\ lastRequest' = NoPagination
  /\ lastResponse' = NoPagination
  /\ prevSelected' = selected
  /\ UNCHANGED <<paginator, selected, barVars, regVars, queryVars, columnVars, callVars>>

\* DatatableRow.handleSelect: the function given to onSelectedChanged
\* A search that never finds the row
IndexOf_NotFound(rows, row) == -1

\* selected.map(selectedRow => selectedRow.entry_id).indexOf(row.entry_id)
IndexOf(rows, row) ==
  LET found == {i \in DOMAIN rows : rows[i].entry_id = row.entry_id}
  IN IF found = {} THEN -1 ELSE MinOf(found)
\* A toggle that takes the row out of the selection of all rows
SelectUpdate_Complement(sel, row) ==
  IF sel.all
    THEN SelectedRows(SelectSeq([i \in 1..MaxRows |-> [entry_id |-> i]],
                                LAMBDA r : r.entry_id # row.entry_id))
  ELSE LET index == IndexOf(sel.rows, row)
       IN IF index > -1
            THEN SelectedRows(SubSeq(sel.rows, 1, index - 1)
                              \o SubSeq(sel.rows, index + 1, Len(sel.rows)))
            ELSE SelectedRows(Append(sel.rows, row))

SelectUpdate(sel, row) ==
  IF sel.all THEN SelectedRows(<<row>>)
  ELSE LET index == IndexOf(sel.rows, row)
       IN IF index > -1
            THEN SelectedRows(SubSeq(sel.rows, 1, index - 1)
                              \o SubSeq(sel.rows, index + 1, Len(sel.rows)))
            ELSE SelectedRows(Append(sel.rows, row))

EmitSelected(sel) ==
  /\ tablePhase # "init"
  /\ selected' = sel
  /\ prevSelected' = selected
  /\ emitted' = TRUE
  /\ tablePhase' = "used"
  /\ lastRequest' = NoPagination
  /\ lastResponse' = NoPagination
  /\ UNCHANGED <<pagination, paginator, barVars, regVars, queryVars, columnVars, callVars>>

handleSelect(row) == EmitSelected(SelectUpdate(selected, row))

\* DatatableHeader.handleSelectAllChanged
handleSelectAllChanged ==
  EmitSelected(IF selected.all THEN SelectedRows(<<>>) ELSE SelectedAll)

\* The pagination objects a table's owner combines
Sorts == {<<undefined, undefined>>, <<Present("entry_id"), Present("asc")>>}
Cursors == {undefined, Present("a")}
NextCursors == {undefined, Present("a"), Present("b")}
Requests ==
  {[NoPagination EXCEPT !.page_size = size, !.order_by = sort[1], !.order = sort[2],
                        !.page = page, !.page_after_value = after] :
     size \in {undefined, Present(0), Present(10)}, sort \in Sorts,
     page \in {undefined, Present(1)}, after \in Cursors}
Responses ==
  {NoPagination} \cup
  {[NoPagination EXCEPT !.page_size = size, !.order_by = Present("upload_create_time"),
                        !.order = Present("desc"), !.page = page, !.total = Present(5),
                        !.page_after_value = after, !.next_page_after_value = next] :
     size \in {undefined, Present(20)}, page \in {undefined, Present(1)},
     after \in Cursors, next \in NextCursors}

\* The table is shown, with the pagination its owner combined from a
\* request and the response to it, or without a pagination property
Mount ==
  /\ tablePhase = "init"
  /\ paginator' \in {"page", "loadmore", "scroll"}
  /\ selected' = SelectedRows(<<>>)
  /\ prevSelected' = SelectedRows(<<>>)
  /\ emitted' = FALSE
  /\ \/ \E req \in Requests, resp \in Responses :
          /\ lastRequest' = req
          /\ lastResponse' = resp
          /\ pagination' = combinePagination(req, resp)
          /\ tablePhase' = "combined"
     \/ /\ lastRequest' = NoPagination
        /\ lastResponse' = NoPagination
        /\ pagination' = DefaultPagination
        /\ tablePhase' = "used"
  /\ UNCHANGED <<barVars, regVars, queryVars, columnVars, callVars>>

\* The owner has fetched with the pagination the table gave it and shows
\* the table with the combination of that request and the response
FetchDone ==
  /\ tablePhase = "used"
  /\ emitted
  /\ \E resp \in Responses :
       /\ lastRequest' = pagination
       /\ lastResponse' = resp
       /\ pagination' = combinePagination(pagination, resp)
  /\ tablePhase' = "combined"
  /\ emitted' = FALSE
  /\ prevSelected' = selected
  /\ UNCHANGED <<paginator, selected, barVars, regVars, queryVars, columnVars, callVars>>

TableInit ==
  /\ lastRequest = NoPagination
  /\ lastResponse = NoPagination
  /\ pagination = NoPagination
  /\ paginator = "page"
  /\ selected = SelectedRows(<<>>)
  /\ prevSelected = SelectedRows(<<>>)
  /\ emitted = FALSE
  /\ tablePhase = "init"

(***************************************************************************)
(* addColumnDefaults.  A column is a record of its fields, each undefined  *)
(* or <<v>>.  A label is a text together with what was done to it: its     *)
(* underscores replaced by blanks, its first letter made upper case.  A    *)
(* render function is the custom one of the column or the lookup of the    *)
(* row along the segments of a key.                                        *)
(***************************************************************************)
Label(text, spaced, capital) == [text |-> text, spaced |-> spaced, capital |-> capital]
CustomRender == [kind |-> "custom", segments |-> <<>>]
PathRender(segments) == [kind |-> "path", segments |-> segments]
OwnDescription == [of |-> <<"own">>]

\* !column[key], by the type of the field
FalsyLabel(f) == f = undefined \/ f[1].text = ""
FalsyBoolean(f) == f = undefined \/ f[1] = FALSE
FalsyObject(f) == f = undefined

NoDefaults ==
  [label |-> undefined, render |-> undefined, sortable |-> undefined,
   align |-> undefined, description |-> undefined]

\* Object.keys(moreDefaults).filter(key => !column[key]).forEach(key => { column[key] = moreDefaults[key] })
WithMoreDefaults(column, more) ==
  [column EXCEPT
     !.label = IF FalsyLabel(@) /\ more.label # undefined THEN more.label ELSE @,
     !.render = IF FalsyObject(@) /\ more.render # undefined THEN more.render ELSE @,
     !.sortable = IF FalsyBoolean(@) /\ more.sortable # undefined THEN more.sortable ELSE @,
     !.align = IF FalsyString(@) /\ more.align # undefined THEN more.align ELSE @,
     !.description = IF FalsyObject(@) /\ more.description # undefined
                       THEN more.description ELSE @]

\* searchQuantities[column.key]?.description
MetainfoDescription(key) ==
  IF key \in DOMAIN searchQuantities THEN Present([of |-> key]) ELSE undefined

ColumnDefaults(column, more) ==
  LET c == WithMoreDefaults(column, more)
  IN [c EXCEPT
        !.label = IF FalsyLabel(@) THEN Present(Label(Last(c.key), TRUE, TRUE)) ELSE @,
        !.render = IF FalsyObject(@) THEN Present(PathRender(c.key)) ELSE @,
        !.sortable = IF @ # Present(FALSE) THEN Present(TRUE) ELSE @,
        !.align = IF FalsyString(@) THEN Present("center") ELSE @,
        !.description = IF FalsyObject(@) THEN MetainfoDescription(c.key) ELSE @]

addColumnDefaults(cols, more) == [i \in DOMAIN cols |-> ColumnDefaults(cols[i], more)]

\* The columns a table can be declared with
ColumnSet ==
  {[key |-> key, label |-> label, render |-> render, sortable |-> sortable,
    align |-> align, description |-> undefined] :
     key \in {qNElements, qEntryId},
     label \in {undefined, Present(Label("Elements", FALSE, FALSE))},
     render \in {undefined, Present(CustomRender)},
     sortable \in {undefined, Present(TRUE), Present(FALSE)},
     align \in {undefined, Present("left")}}
MoreDefaultsSet ==
  {NoDefaults,
   [NoDefaults EXCEPT !.align = Present("right")],
   [NoDefaults EXCEPT !.sortable = Present(TRUE)],
   [NoDefaults EXCEPT !.sortable = Present(FALSE), !.description = Present(OwnDescription)]}

DeclareColumns ==
  /\ applied = 0
  /\ declared = <<>>
  /\ \E column \in ColumnSet, more \in MoreDefaultsSet :
       /\ declared' = <<column>>
       /\ columns' = <<column>>
       /\ moreDefaults' = more
  /\ UNCHANGED <<applied, barVars, regVars, queryVars, tableVars, callVars>>

ApplyColumnDefaults ==
  /\ declared # <<>>
  /\ applied < MaxApplied
  /\ columns' = addColumnDefaults(columns, moreDefaults)
  /\ applied' = applied + 1
  /\ UNCHANGED <<declared, moreDefaults, barVars, regVars, queryVars, tableVars, callVars>>

ColumnInit ==
  /\ declared = <<>>
  /\ columns = <<>>
  /\ moreDefaults = NoDefaults
  /\ applied = 0

(***************************************************************************)
(* The value setter of the results.material.elements filter.  The value    *)
(* is a Set of element names; a Set iterates in insertion order, so it is  *)
(* the sequence of its members as they were added.  newQuery is the two    *)
(* keys the setter can write, each undefined or present.                   *)
(***************************************************************************)
\* Element names of the periodic table, in the order of their UTF-16 code units
ElementNames == <<"C", "H", "Ti", "Zr">>
CodeUnitRank(name) == CHOOSE i \in DOMAIN ElementNames : ElementNames[i] = name

\* Array.prototype.sort() without a comparator: ascending by code units
RECURSIVE InsertSorted(_, _)
InsertSorted(sorted, name) ==
  IF sorted = <<>> \/ CodeUnitRank(name) <= CodeUnitRank(Head(sorted))
    THEN <<name>> \o sorted
    ELSE <<Head(sorted)>> \o InsertSorted(Tail(sorted), name)
\* An array that is left in the order of the Set
SortNames_Unsorted(array) == array

RECURSIVE SortNames(_)
SortNames(array) ==
  IF array = <<>> THEN <<>> ELSE InsertSorted(SortNames(Tail(array)), Head(array))

\* Array.prototype.join(' '): the string of the items with one blank between them
RECURSIVE JoinBlank(_)
JoinBlank(array) ==
  IF array = <<>> THEN <<>>
  ELSE IF Len(array) = 1 THEN <<<<array[1]>>>>
  ELSE <<<<array[1]>>>> \o Space \o JoinBlank(Tail(array))

setToArray(set) == set

EmptyElementsQuery == [elements |-> undefined, elements_exclusive |-> undefined]

\* value.set(newQuery, oldQuery, value) of 'results.material.elements'
ElementsValueSet(query, oldExclusive, selection) ==
  IF oldExclusive
    THEN IF Len(selection) # 0
           THEN [query EXCEPT
                   !.elements_exclusive =
                      <<JoinBlank(SortNames(setToArray(selection)))>>]
           ELSE query
    ELSE [query EXCEPT !.elements = <<{selection[i] : i \in DOMAIN selection}>>]

\* An element of the periodic table is clicked: it joins or leaves the Set
ClickElement(name) ==
  /\ elements' =
       IF \E i \in DOMAIN elements : elements[i] = name
         THEN SelectSeq(elements, LAMBDA e : e # name)
         ELSE Append(elements, name)
  /\ elementsQuery' = EmptyElementsQuery
  /\ elementsSet' = FALSE
  /\ UNCHANGED <<exclusive, coreVars, visibilityVars, suggestVars, renderVars, nameVars, equivVars>>

\* The exclusive checkbox is clicked
ClickExclusive ==
  /\ exclusive' = ~exclusive
  /\ elementsQuery' = EmptyElementsQuery
  /\ elementsSet' = FALSE
  /\ UNCHANGED <<elements, coreVars, visibilityVars, suggestVars, renderVars, nameVars, equivVars>>

\* The query is turned into an API query: the setter runs on an empty newQuery
SetElements ==
  /\ ~elementsSet
  /\ elementsQuery' = ElementsValueSet(EmptyElementsQuery, exclusive, elements)
  /\ elementsSet' = TRUE
  /\ UNCHANGED <<elements, exclusive, coreVars, visibilityVars, suggestVars, renderVars, nameVars, equivVars>>

ElementsInit ==
  /\ elements = <<>>
  /\ exclusive = FALSE
  /\ elementsQuery = EmptyElementsQuery
  /\ elementsSet = FALSE

(***************************************************************************)
(* The shown columns of a Datatable.  A column object is identified by     *)
(* its key; the keys of the declared columns are distinct.                 *)
(***************************************************************************)
\* props.columns, in the order of their declaration
TableColumns == <<"entry_id", "mainfile", "upload_create_time">>

\* The table as the context shows it: the state array as it is
ShownColumnsObjects_State(state) == state

\* shownColumnsObjects: columns.filter(column => shownColumns.map(c => c.key).includes(column.key))
ShownColumnsObjects(state) ==
  SelectSeq(TableColumns, LAMBDA column : \E i \in DOMAIN state : state[i] = column)

\* DatatableColumnSelector.handleToggle, on the shownColumns of the context
ToggleUpdate(state, column) ==
  LET index == IF \E i \in DOMAIN state : state[i] = column
                 THEN CHOOSE i \in DOMAIN state : state[i] = column
                 ELSE -1
  IN IF index > -1
       THEN SubSeq(state, 1, index - 1) \o SubSeq(state, index + 1, Len(state))
       ELSE Append(state, column)

\* The selector is in the toolbar while no row is selected
handleToggle(column) ==
  /\ tablePhase # "init"
  /\ ~selected.all /\ selected.rows = <<>>
  /\ shownColumns' = ToggleUpdate(ShownColumnsObjects(shownColumns), column)
  /\ UNCHANGED <<coreVars, elementVars, suggestVars, renderVars, nameVars, equivVars>>

\* useState(props.shownColumns ? ... : columns), without props.shownColumns
VisibilityInit == shownColumns = TableColumns

(***************************************************************************)
(* Static suggestions.  Values and inputs are strings given character by   *)
(* character.                                                              *)
(***************************************************************************)
Underscore == <<"_">>
Period == <<".">>

\* String.prototype.toLowerCase
toLowerCase(s) ==
  [i \in DOMAIN s |-> IF s[i] = <<"A">> THEN <<"a">>
                      ELSE IF s[i] = <<"B">> THEN <<"b">> ELSE s[i]]
\* .replace(/_/g, ' ')
ReplaceUnderscores(s) == [i \in DOMAIN s |-> IF s[i] = Underscore THEN Space ELSE s[i]]
\* value.trim().replace(/_/g, ' ').toLowerCase()
Cleaned(s) == toLowerCase(ReplaceUnderscores(Trim(s)))

\* [...optionCleaned.matchAll(/[ .]/g)].map(match => match.index), 1-based, ascending
RECURSIVE MatchIndices(_, _)
MatchIndices(s, i) ==
  IF i > Len(s) THEN <<>>
  ELSE IF s[i] \in {Space, Period} THEN <<i>> \o MatchIndices(s, i + 1)
  ELSE MatchIndices(s, i + 1)

\* tokens: [optionCleaned].concat(matches.map(match => optionCleaned.slice(match.index + 1)))
OptionTokens(optionCleaned) ==
  LET matches == MatchIndices(optionCleaned, 1)
  IN <<optionCleaned>> \o [k \in DOMAIN matches |-> From(optionCleaned, matches[k] + 1)]

SuggestionOption(category, v) ==
  [value |-> v, category |-> category, tokens |-> OptionTokens(Cleaned(v))]

\* getSuggestions(category, values, minLength, text).options
getSuggestions(category, values) ==
  [i \in DOMAIN values |-> SuggestionOption(category, values[i])]

\* Array.prototype.sort((a, b) => a.value.length - b.value.length), which is stable
RECURSIVE InsertByLength(_, _)
InsertByLength(sorted, option) ==
  IF sorted = <<>> \/ Len(option.value) < Len(Head(sorted).value)
    THEN <<option>> \o sorted
    ELSE <<Head(sorted)>> \o InsertByLength(Tail(sorted), option)
RECURSIVE SortByLength(_)
SortByLength(list) ==
  IF list = <<>> THEN <<>>
  ELSE InsertByLength(SortByLength(SubSeq(list, 1, Len(list) - 1)), list[Len(list)])

\* getSuggestions(...).filter(input)
SuggestionFilter(list, minLength, text) ==
  IF Len(text) < minLength THEN <<>>
  ELSE LET inputCleaned == Cleaned(text)
       IN SortByLength(SelectSeq(list, LAMBDA option :
            \E k \in DOMAIN option.tokens : startsWith(option.tokens[k], inputCleaned)))

\* Strings of at most n characters
SuggestStrings(chars, n) == UNION {[1..k -> chars] : k \in 0..n}
\* Enumerated values: one free value and one of a few fixed ones
EnumValues ==
  SuggestStrings({<<"a">>, <<"B">>, Underscore, Period, Space}, MaxChars) \ {<<>>}
OtherValues == {<<<<"a">>>>, <<<<"a">>, <<"B">>>>, <<<<"b">>, Period, <<"a">>>>}
FilterInputs == SuggestStrings({<<"a">>, <<"B">>, Underscore, Period, Space}, MaxInput)

\* getStaticSuggestions, for one quantity with an Enum type
BuildSuggestions ==
  /\ suggestPhase = "none"
  /\ \E v \in EnumValues, w \in OtherValues :
       LET options == <<v, w>>
           maxLength == MaxOf({Len(options[i]) : i \in DOMAIN options})
       IN /\ staticOptions' = getSuggestions("quantity", options)
          /\ staticMinLength' = IF maxLength <= 2 THEN 1 ELSE 2
  /\ suggestPhase' = "built"
  /\ UNCHANGED <<filterInput, filterResult, coreVars, elementVars, visibilityVars, renderVars, nameVars, equivVars>>

\* suggestions[quantity].filter(input)
FilterSuggestions ==
  /\ suggestPhase = "built"
  /\ \E text \in FilterInputs :
       /\ filterInput' = text
       /\ filterResult' = SuggestionFilter(staticOptions, staticMinLength, text)
  /\ suggestPhase' = "filtered"
  /\ UNCHANGED <<staticOptions, staticMinLength, coreVars, elementVars, visibilityVars, renderVars, nameVars, equivVars>>

SuggestInit ==
  /\ staticOptions = <<>>
  /\ staticMinLength = 2
  /\ filterInput = <<>>
  /\ filterResult = <<>>
  /\ suggestPhase = "none"

(***************************************************************************)
(* DatatableTable: the rows it renders.  page_size may be missing from     *)
(* the pagination; arithmetic with undefined gives NaN.                    *)
(***************************************************************************)
\* page_size - data.length
Minus(a, b) == IF a = NaN \/ b = NaN THEN NaN ELSE a - b
ToNumber(f) == IF f = undefined THEN NaN ELSE f[1]
\* Math.max(0, x): NaN when x is NaN
MathMax0(x) == IF x = NaN THEN NaN ELSE IF x > 0 THEN x ELSE 0
\* a < b, false when one of them is NaN
LessThan(a, b) == a # NaN /\ b # NaN /\ a < b
\* Array.prototype.slice(start) for start >= 0 or NaN (read as 0)
SliceFrom(array, start) ==
  IF start = NaN THEN array ELSE SubSeq(array, start + 1, Len(array))

emptyRows(data, size) == MathMax0(Minus(ToNumber(size), Len(data)))
isExtending(child) == child \in {"scroll", "loadmore"}

\* Rows shown in page mode when the data is never cut
dataToShow_Uncut(data, size, child) == data

dataToShow(data, size, child) ==
  IF isExtending(child) THEN data
  ELSE SliceFrom(data, IF LessThan(Len(data), ToNumber(size))
                         THEN 0 ELSE Minus(Len(data), ToNumber(size)))

\* {!isExtending && (emptyRows > 0) && <TableRow style={{ height: 53 * emptyRows }}>}
fillerRows(data, size, child) ==
  IF ~isExtending(child) /\ emptyRows(data, size) # NaN /\ emptyRows(data, size) > 0
    THEN emptyRows(data, size) ELSE 0

RenderTable ==
  \E n \in 0..MaxData, size \in {undefined} \cup {Present(k) : k \in 0..MaxPageSize},
     child \in {"none", "page", "loadmore", "scroll"} :
    LET data == [i \in 1..n |-> [entry_id |-> i]]
    IN /\ renderData' = data
       /\ renderPageSize' = size
       /\ renderChild' = child
       /\ renderedRows' = dataToShow(data, size, child)
       /\ renderedFiller' = fillerRows(data, size, child)
       /\ UNCHANGED <<coreVars, elementVars, visibilityVars, suggestVars, nameVars, equivVars>>

\* A table without data and without pagination child, page_size data.length
RenderInit ==
  /\ renderData = <<>>
  /\ renderPageSize = Present(0)
  /\ renderChild = "none"
  /\ renderedRows = <<>>
  /\ renderedFiller = 0

(***************************************************************************)
(* The mappings between the field names of entry and material queries.     *)
(* A name is the sequence of its dot-separated segments.                   *)
(***************************************************************************)
qCrystalSystem == <<"results", "material", "symmetry", "crystal_system">>
qMainfile == <<"mainfile">>
\* Object.keys(searchQuantities)
QuantityNames == Range(searchQuantityKeys) \cup {qCrystalSystem, qMainfile}

\* A material name that is the last segment of the name
MaterialName_LastSegment(n) == <<Last(n)>>

\* name.startsWith('results.material.') ? name.substring(prefix.length) : `entries.${name}`
MaterialName(n) ==
  IF Len(n) > 2 /\ SubSeq(n, 1, 2) = <<"results", "material">>
    THEN SubSeq(n, 3, Len(n))
    ELSE <<"entries">> \o n

\* One round of the loop over the search quantities
MapName(n) ==
  /\ n \notin DOMAIN materialNames
  /\ Cardinality(DOMAIN materialNames) < MaxNames
  /\ materialNames' = (n :> MaterialName(n)) @@ materialNames
  /\ entryNames' = (MaterialName(n) :> n) @@ entryNames
  /\ UNCHANGED <<coreVars, elementVars, visibilityVars, suggestVars, renderVars, equivVars>>

NamesInit ==
  /\ materialNames = <<>>
  /\ entryNames = <<>>

(***************************************************************************)
(* utils.isEquivalent.  An object is the function from its own property    *)
(* names to their values; a value may be undefined, which is also what     *)
(* reading a name the object does not have gives.                          *)
(***************************************************************************)
PropertyNames == {"x", "y"}
PropertyValues == {undefined, Present(1), Present(2)}
Objects == UNION {[names -> PropertyValues] : names \in SUBSET PropertyNames}

\* o[propName]
GetProperty(o, propName) == IF propName \in DOMAIN o THEN o[propName] ELSE undefined

\* Object.getOwnPropertyNames(o)
getOwnPropertyNames(o) == DOMAIN o

isEquivalent(a, b) ==
  LET aProps == getOwnPropertyNames(a)
      bProps == getOwnPropertyNames(b)
  IN IF Cardinality(aProps) # Cardinality(bProps) THEN FALSE
     ELSE \A propName \in aProps : GetProperty(a, propName) = GetProperty(b, propName)

CompareObjects ==
  \E a \in Objects, b \in Objects :
    /\ equivA' = a
    /\ equivB' = b
    /\ equivAB' = isEquivalent(a, b)
    /\ equivBA' = isEquivalent(b, a)
    /\ UNCHANGED <<coreVars, elementVars, visibilityVars, suggestVars, renderVars, nameVars>>

EquivInit ==
  /\ equivA = <<>>
  /\ equivB = <<>>
  /\ equivAB = TRUE
  /\ equivBA = TRUE

CallInit ==
  /\ ElementsInit /\ VisibilityInit /\ SuggestInit /\ RenderInit /\ NamesInit
  /\ EquivInit

Init == BarInit /\ RegInit /\ QueryInit /\ TableInit /\ ColumnInit /\ CallInit

(***************************************************************************)
(* Specification QuerySpec: the value setters of the option filters of a   *)
(* query are applied to one new query, in any order.                       *)
(***************************************************************************)
SetSome == \E name \in DOMAIN OptionFilters : OptionsValueSet(name)
QueryNext == StartTransform \/ SetSome
QuerySpec == Init /\ [][QueryNext]_vars

(***************************************************************************)
(* Specification TableSpec: a table is shown and used.                     *)
(***************************************************************************)
ChangePage == \E newPage \in 0..(MaxPage - 1) : handleChangePage(newPage)
ChangeRowsPerPage ==
  \E size \in pageSizeValues : handleChangeRowsPerPage(NumberText(size))
Sort == \E column \in sortingColumns : createSortHandler(column)
Select == \E row \in Rows : handleSelect(row)
TableNext ==
  \/ Mount
  \/ FetchDone
  \/ ChangePage
  \/ ChangeRowsPerPage
  \/ Sort
  \/ handleClick
  \/ handleLoadMore
  \/ Select
  \/ handleSelectAllChanged
TableSpec == Init /\ [][TableNext]_vars

(***************************************************************************)
(* Specification ColumnSpec: columns are declared and completed.           *)
(***************************************************************************)
ColumnNext == DeclareColumns \/ ApplyColumnDefaults
ColumnSpec == Init /\ [][ColumnNext]_vars

(***************************************************************************)
(* The elements filter: elements are selected, the exclusive flag is       *)
(* switched, and the setter is run.                                        *)
(***************************************************************************)
SelectElement == \E i \in DOMAIN ElementNames : ClickElement(ElementNames[i])
ElementsNext == SelectElement \/ ClickExclusive \/ SetElements
ElementsSpec == Init /\ [][ElementsNext]_vars

(***************************************************************************)
(* The table with its column selector: it is shown, pages are changed,     *)
(* rows are selected and columns are switched on and off.                  *)
(***************************************************************************)
ToggleColumn == \E i \in DOMAIN TableColumns : handleToggle(TableColumns[i])
VisibilityNext ==
  \/ Mount
  \/ ChangePage
  \/ Select
  \/ handleSelectAllChanged
  \/ ToggleColumn
VisibilitySpec == Init /\ [][VisibilityNext]_vars

(***************************************************************************)
(* Static suggestions are built for the values of a quantity and then      *)
(* filtered with an input.                                                 *)
(***************************************************************************)
SuggestNext == BuildSuggestions \/ FilterSuggestions
SuggestSpec == Init /\ [][SuggestNext]_vars

(***************************************************************************)
(* The table is rendered with some data, page size and pagination child.   *)
(***************************************************************************)
RenderNext == RenderTable
RenderSpec == Init /\ [][RenderNext]_vars

(***************************************************************************)
(* The name mappings are built for some search quantities.                 *)
(***************************************************************************)
NamesNext == \E n \in QuantityNames : MapName(n)
NamesSpec == Init /\ [][NamesNext]_vars

(***************************************************************************)
(* Two objects are compared, in both orders.                               *)
(***************************************************************************)
EquivNext == CompareObjects
EquivSpec == Init /\ [][EquivNext]_vars

(***************************************************************************)
(* Specification RegistrySpec: a registry is built from at most MaxRegs    *)
(* of the declarations, in any order, and its abbreviations are resolved.  *)
(***************************************************************************)
RegisterSome ==
  \E d \in Declarations : registerFilter(d.name, d.group, d.config, d.subQuantities)
RegistryNext == RegisterSome \/ BuildAbbreviations
RegistrySpec == Init /\ [][RegistryNext]_vars

(***************************************************************************)
(* Specification RegisterSpec: registerFilter as the operation it is, on   *)
(* configs the declarations of the module could hold: at most MaxRegs      *)
(* calls with a name, a group, a config and sub-quantities of the sets     *)
(* below, then the abbreviations.                                          *)
(***************************************************************************)
RegNames == {<<"results", "material", "n_elements">>, <<"exclusive">>}
RegGroups == {"undefined", "elements"}
RegConfigs ==
  {[NoConfig EXCEPT !.multiple = m, !.queryMode = q, !.global = g, !.default = d] :
     m \in {"undefined", "false"}, q \in {"undefined", "all"},
     g \in {"undefined", "true"}, d \in {"undefined", "false", "visible"}}
RegSubs == {<<>>, <<Sub(<<"value">>, termQuantityAll)>>}
RegisterAny ==
  \E name \in RegNames, group \in RegGroups, config \in RegConfigs,
     subQuantities \in RegSubs :
    registerFilter(name, group, config, subQuantities)
RegisterNext == RegisterAny \/ BuildAbbreviations
RegisterSpec == Init /\ [][RegisterNext]_vars

(***************************************************************************)
(* Specification Spec: the search bar, typed into key by key.              *)
(***************************************************************************)
Keys == {<<"material_name">>, <<"3">>, Eq}

\* The user types a key or deletes the last one.
TypeInput ==
  \/ /\ Len(inputValue) < MaxTyped
     /\ \E k \in Keys : handleInputChange(Append(inputValue, k), "input")
  \/ /\ Len(inputValue) > 0
     /\ handleInputChange(Upto(inputValue, Len(inputValue) - 1), "input")

\* The user picks a server-backed suggestion from the popup (filterOptions
\* never hides one): the input is reset to its text.
SelectOption ==
  /\ open
  /\ \E i \in DOMAIN suggestions : handleInputChange(suggestions[i].value, "reset")

Next ==
  \/ TypeInput
  \/ SelectOption
  \/ SuggestionsResolve
  \/ SuggestionsReject
  \/ handleSubmit
  \/ handleClose
  \/ onOpen
  \/ onClose
Spec == Init /\ [][Next]_vars

(***************************************************************************)
(* Specification ParserSpec: a text is pasted into the empty search bar    *)
(* and submitted.  The texts are every sequence of at most MaxLen tokens,  *)
(* and the texts of the shapes `a op b` and `a op b op c`, with and        *)
(* without blanks around the tokens.                                       *)
(***************************************************************************)
ParserKeys ==
  {<<"n_elements">>, <<"structural_type">>, <<"material_name">>, <<"foo">>,
   <<"3">>, Lt, Gt, Eq, Space}
FreeTexts == UNION {[1..n -> ParserKeys] : n \in 0..MaxLen}

Operands ==
  {<<<<"n_elements">>>>, <<<<"structural_type">>>>, <<<<"material_name">>>>,
   <<<<"density">>>>, <<<<"value">>>>, <<qNElements>>, <<qBandGapValue>>,
   <<<<"foo">>>>, <<<<"3">>>>, <<<<"7">>>>, <<<<"3">>, <<"7">>>>}
Ends == {<<<<"3">>>>, <<<<"7">>>>, <<<<"foo">>>>}
RangeOps == {<<Lt>>, <<Gt>>, <<Lt, Eq>>, <<Gt, Eq>>}
Pads == {<<>>, <<Space>>}
Single(p, a, op, b) == p \o a \o p \o op \o p \o b \o p
Sandwich(p, a, op1, b, op2, c) ==
  p \o a \o p \o op1 \o p \o b \o p \o op2 \o p \o c \o p
SingleTexts ==
  {Single(p, a, op, b) :
     p \in Pads, a \in Operands, op \in RangeOps \cup {<<Eq>>}, b \in Operands}
SandwichTexts ==
  {Sandwich(p, a, op1, b, op2, c) :
     p \in Pads, a \in Ends, op1 \in RangeOps, b \in Operands, op2 \in RangeOps,
     c \in Ends}
ParserTexts == FreeTexts \cup SingleTexts \cup SandwichTexts

\* The first input event of the bar: the user pastes a text.
PasteInput ==
  /\ error = "false"
  /\ \E value \in ParserTexts : handleInputChange(value, "input")

ParserNext ==
  \/ PasteInput
  \/ SuggestionsResolve
  \/ SuggestionsReject
  \/ handleSubmit
  \/ handleClose
ParserSpec == Init /\ [][ParserNext]_vars

(***************************************************************************)
(* What the claims speak of, stated apart from the handlers.               *)
(***************************************************************************)
\* The filters of the bar a name stands for: the filter of that full name,
\* or the filter whose last segment it is when no other quantity shares it.
ResolvesTo(s) ==
  {f \in quantitySet :
     \/ s = Str(f)
     \/ /\ s = Str(Abbreviation(f))
        /\ \A g \in Range(quantityNames) : Abbreviation(g) = Abbreviation(f) => g = f}
Resolves(s) == ResolvesTo(s) # {}
FilterOf(s) == CHOOSE f \in ResolvesTo(s) : TRUE
\* The name is the short form of the filter, the one the bar suggests
Short(s) == Resolves(s) /\ s = Str(Abbreviation(FilterOf(s)))
\* Int and Float filters
Numeric(f) ==
  /\ searchQuantities[f].type.type_kind # "Enum"
  /\ searchQuantities[f].type.type_data \in
       {<<"i", "n", "t">>, <<"f", "l", "o", "a", "t", "6", "4">>}
Numerals == {<<<<"3">>>>, <<<<"7">>>>, <<<<"3">>, <<"7">>>>}
NumberOf(a) ==
  CASE a = <<<<"3">>>> -> 3 [] a = <<<<"7">>>> -> 7 [] a = <<<<"3">>, <<"7">>>> -> 37
OpName(op) ==
  CASE op = <<Lt>> -> "<" [] op = <<Gt>> -> ">" [] op = <<Lt, Eq>> -> "<="
    [] op = <<Gt, Eq>> -> ">="
DirectKey == ("<" :> "lt") @@ ("<=" :> "lte") @@ (">" :> "gt") @@ (">=" :> "gte")
ReversedKey == ("<" :> "gt") @@ ("<=" :> "gte") @@ (">" :> "lt") @@ (">=" :> "lte")
SetsFilter(calls, f, value) == calls = <<[name |-> f, value |-> value]>>

(***************************************************************************)
(* C1.  Stale-response guard of the suggestions: the suggestions shown     *)
(* never come from a request that is older than a request whose response   *)
(* has already arrived (when R1's response arrives after R2's, R2's stay   *)
(* visible).                                                               *)
(***************************************************************************)
C1_StaleGuard == (shown # 0 /\ suggestions # <<>>) => shown >= answered

(***************************************************************************)
(* C2.  Submitting `<num> <op1> <name> <op2> <num>` with the name of a     *)
(* numeric filter of the bar sets that filter to one object holding both   *)
(* bounds, op1 read with the reversed table and op2 with the direct one.   *)
(***************************************************************************)
C2_SandwichSetsBothBounds ==
  [][\A p \in Pads, a \in Numerals, c \in Numerals, b \in Operands,
        op1 \in {<<Lt>>, <<Lt, Eq>>}, op2 \in {<<Lt>>, <<Lt, Eq>>} :
       (/\ handleSubmit
        /\ inputValue = Sandwich(p, a, op1, b, op2, c)
        /\ Short(b) /\ Numeric(FilterOf(b)))
       => SetsFilter(setFilterCalls', FilterOf(b),
                     BoundsValue({<<ReversedKey[OpName(op1)], NumberOf(a)>>,
                                  <<DirectKey[OpName(op2)], NumberOf(c)>>}))]_vars

(***************************************************************************)
(* C3.  Single bound: with the filter on the left the operator maps        *)
(* directly to the bound key, with the filter on the right it is reversed  *)
(* first: `3 < n_elements` gives {gt: 3}, `n_elements < 3` gives {lt: 3}.  *)
(***************************************************************************)
C3_OperatorNormalizedBySide ==
  [][\A p \in Pads, n \in Numerals, a \in Operands, op \in {<<Lt>>, <<Gt>>} :
       (handleSubmit /\ Short(a) /\ Numeric(FilterOf(a)))
       => /\ inputValue = Single(p, a, op, n)
             => SetsFilter(setFilterCalls', FilterOf(a),
                           BoundsValue({<<DirectKey[OpName(op)], NumberOf(n)>>}))
          /\ inputValue = Single(p, n, op, a)
             => SetsFilter(setFilterCalls', FilterOf(a),
                           BoundsValue({<<ReversedKey[OpName(op)], NumberOf(n)>>}))]_vars

(***************************************************************************)
(* C4.  For every operator of <, <=, >, >=, submitting `name op number`    *)
(* with the name of a numeric filter of the bar sets that filter to        *)
(* {boundKey: number}.                                                     *)
(***************************************************************************)
C4_EveryOperatorAccepted ==
  [][\A p \in Pads, n \in Numerals, a \in Operands, op \in RangeOps :
       (/\ handleSubmit
        /\ inputValue = Single(p, a, op, n)
        /\ Short(a) /\ Numeric(FilterOf(a)))
       => SetsFilter(setFilterCalls', FilterOf(a),
                     BoundsValue({<<DirectKey[OpName(op)], NumberOf(n)>>}))]_vars

(***************************************************************************)
(* C5.  Submitting `<name> = <value>` sets the filter the name resolves    *)
(* to (full name or unique abbreviation of a filter of the bar) to the     *)
(* literal value; a name that resolves to no filter gives UnknownQuantity. *)
(***************************************************************************)
C5_EqualitySetsFilter ==
  [][\A p \in Pads, a \in Operands, v \in Operands :
       (handleSubmit /\ inputValue = Single(p, a, <<Eq>>, v))
       => IF Resolves(a)
            THEN SetsFilter(setFilterCalls', FilterOf(a), TextValue(v))
            ELSE error' = UnknownQuantity /\ setFilterCalls' = <<>>]_vars

(***************************************************************************)
(* C6.  Submitting a single bound in which neither side names a filter of  *)
(* the bar sets no filter and gives an error.  As claimed the error is     *)
(* InvalidQuery; the code gives UnknownQuantity.                           *)
(***************************************************************************)
NeitherResolves(text) ==
  \E p \in Pads, a \in Operands, op \in RangeOps, b \in Operands :
    text = Single(p, a, op, b) /\ ~Resolves(a) /\ ~Resolves(b)
C6_NeitherResolves_InvalidQuery ==
  [][(handleSubmit /\ NeitherResolves(inputValue))
       => error' = InvalidQuery /\ setFilterCalls' = <<>>]_vars
C6_NeitherResolves_UnknownQuantity ==
  [][(handleSubmit /\ NeitherResolves(inputValue))
       => error' = UnknownQuantity /\ setFilterCalls' = <<>> /\ inputValue' = inputValue]_vars
C6_Witness ==
  /\ NeitherResolves(inputValue)
  /\ error = UnknownQuantity
  /\ setFilterCalls = <<>>

(***************************************************************************)
(* C7.  A submitted text that matches none of the three forms sets no      *)
(* filter and gives InvalidQuery.  As claimed this includes the blank      *)
(* text; the code returns on a blank text without an error.                *)
(***************************************************************************)
MatchesNone(text) ==
  MatchEquals(text) = null /\ MatchLtegte(text) = null /\ MatchSandwich(text) = null
Blank(text) == \A i \in DOMAIN text : text[i] = Space
C7_NoForm_InvalidQuery ==
  [][(handleSubmit /\ MatchesNone(inputValue))
       => error' = InvalidQuery /\ setFilterCalls' = <<>>]_vars
C7_NoFormNotBlank_InvalidQuery ==
  [][(handleSubmit /\ MatchesNone(inputValue))
       => /\ setFilterCalls' = <<>>
          /\ exception' = "none"
          /\ inputValue' = inputValue
          /\ error' = IF Blank(inputValue) THEN error ELSE InvalidQuery]_vars
C7_Witness ==
  /\ MatchesNone(inputValue) /\ ~Blank(inputValue)
  /\ \E i \in DOMAIN inputValue : inputValue[i] \in {Lt, Gt, Eq}
  /\ error = InvalidQuery

(***************************************************************************)
(* C8.  A range query that names a non-numeric filter of the bar, of any   *)
(* non-numeric type, ends in UnsupportedRangeType; no submission throws.   *)
(***************************************************************************)
C8_NonNumericRangeRejected ==
  [][handleSubmit
       => /\ exception' = "none"
          /\ \A p \in Pads, n \in Numerals, a \in Operands, op \in {<<Lt>>, <<Gt>>} :
               (/\ inputValue \in {Single(p, a, op, n), Single(p, n, op, a)}
                /\ Short(a) /\ ~Numeric(FilterOf(a)))
               => error' = UnsupportedRangeType /\ setFilterCalls' = <<>>]_vars

(***************************************************************************)
(* C9.  After the registry is built, for every registered name n:          *)
(* filterFullnames[filterAbbreviations[n]] = n; when the last segment of n *)
(* is unique among the registered names,                                   *)
(* filterAbbreviations[filterFullnames[short form of n]] is that short     *)
(* form; and the entry of filterFullnames under a registered full name is  *)
(* that name itself.                                                       *)
(***************************************************************************)
Registered == Range(filterKeys)
ShortUnique(n) == \A m \in Registered : Abbreviation(m) = Abbreviation(n) => m = n
C9_AbbreviationRoundTrip ==
  phase = "built" =>
    \A n \in Registered :
      /\ filterFullnames[filterAbbreviations[n]] = n
      /\ ShortUnique(n) =>
           /\ filterAbbreviations[n] = Abbreviation(n)
           /\ filterAbbreviations[filterFullnames[Abbreviation(n)]] = Abbreviation(n)
      /\ filterFullnames[n] = n
C9_Witness ==
  /\ phase = "built"
  /\ \E n \in Registered : ShortUnique(n) /\ Abbreviation(n) # n
  /\ \E n \in Registered : ~ShortUnique(n)

(***************************************************************************)
(* C10.  A last segment shared by two or more registered filters, also     *)
(* when it is the full name of one of them, is never registered as an      *)
(* abbreviation: each such filter is abbreviated by its full name, and no  *)
(* two registered filters have the same abbreviation.                      *)
(***************************************************************************)
C10_CollisionNoAbbreviation ==
  phase = "built" =>
    /\ \A n \in Registered :
         ~ShortUnique(n) =>
           /\ filterAbbreviations[n] = n
           /\ Abbreviation(n) \in DOMAIN filterFullnames =>
                /\ Abbreviation(n) \in Registered
                /\ filterFullnames[Abbreviation(n)] = Abbreviation(n)
    /\ \A n \in Registered, m \in Registered :
         filterAbbreviations[n] = filterAbbreviations[m] => n = m
C10_Witness ==
  /\ phase = "built"
  /\ \E n \in Registered, m \in Registered :
       n # m /\ Abbreviation(n) = m /\ filterAbbreviations[n] = n

(***************************************************************************)
(* C11.  In a registry that was built without an error, every filter whose *)
(* query mode was set (to other than the default 'any') accepts multiple   *)
(* values: a config with queryMode and multiple false is rejected.         *)
(***************************************************************************)
C11_QueryModeNeedsMultiple ==
  phase # "failed" =>
    \A n \in DOMAIN filterData :
      filterData[n].queryMode = "all" => filterData[n].multiple = "true"

(***************************************************************************)
(* C12.  In a registry that was built without an error, every filter that  *)
(* has a default set, whatever its value, is global: a config with a       *)
(* default and without global is rejected.                                 *)
(***************************************************************************)
C12_DefaultNeedsGlobal ==
  phase # "failed" =>
    \A n \in DOMAIN filterData :
      filterData[n].default # "undefined" => filterData[n].global = "true"

(***************************************************************************)
(* C13.  registerFilter with a valid config (and valid sub-quantities)     *)
(* does not fail, also when the name is registered already; afterwards     *)
(* filterData[name] is the data derived from the config, every sub-filter  *)
(* is registered under name.sub, and the names are in the set of the       *)
(* group.                                                                  *)
(***************************************************************************)
ValidConfig(config) ==
  /\ config.queryMode # "undefined" => config.multiple \in {"undefined", "true"}
  /\ config.default # "undefined" => config.global = "true"
DerivedData(config) ==
  [multiple |-> IF config.multiple = "undefined" THEN "true" ELSE config.multiple,
   exclusive |-> IF config.exclusive = "undefined" THEN "true" ELSE config.exclusive,
   queryMode |-> IF config.queryMode = "undefined" THEN "any" ELSE config.queryMode,
   global |-> config.global,
   default |-> config.default]
InGroup(groups, group, name) ==
  group # "undefined" => group \in DOMAIN groups /\ name \in groups[group]
C13_RegisterOverwrites ==
  [][\A name \in RegNames, group \in RegGroups, config \in RegConfigs,
        subQuantities \in RegSubs :
       (/\ registerFilter(name, group, config, subQuantities)
        /\ ValidConfig(config)
        /\ \A i \in DOMAIN subQuantities : ValidConfig(subQuantities[i].config))
       => /\ phase' = "register"
          /\ name \in DOMAIN filterData'
          /\ filterData'[name] = DerivedData(config)
          /\ InGroup(filterGroups', group, name)
          /\ \A i \in DOMAIN subQuantities :
               LET subname == name \o subQuantities[i].name
               IN /\ subname \in DOMAIN filterData'
                  /\ filterData'[subname] = DerivedData(subQuantities[i].config)
                  /\ InGroup(filterGroups', group, subname)]_vars

(***************************************************************************)
(* C14.  When the value setters of all option filters of a query have been *)
(* applied to the new query, in whatever order, the query value of the     *)
(* target filter is the union of all selected option keys and of the       *)
(* values the target filter already held in the new query.                 *)
(***************************************************************************)
TargetValue ==
  IF targetAll \in DOMAIN newQuery THEN objects[newQuery[targetAll]]
  ELSE IF target \in DOMAIN newQuery THEN objects[newQuery[target]]
  ELSE {}
C14_SettersUnion ==
  (queryPhase = "transform" /\ pending = {}) =>
    TargetValue = held \cup UNION {oldQuery[n] : n \in DOMAIN oldQuery}

(***************************************************************************)
(* C15.  combinePagination(request, response) has page_size, order_by,     *)
(* order and page of the request whenever the request provides one and of  *)
(* the response otherwise, and always the total of the response.           *)
(***************************************************************************)
Preferred(a, b) == IF a # undefined THEN a ELSE b
C15_RequestOverridesResponse ==
  tablePhase = "combined" =>
    /\ pagination.page_size = Preferred(lastRequest.page_size, lastResponse.page_size)
    /\ pagination.order_by = Preferred(lastRequest.order_by, lastResponse.order_by)
    /\ pagination.order = Preferred(lastRequest.order, lastResponse.order)
    /\ pagination.page = Preferred(lastRequest.page, lastResponse.page)
    /\ pagination.total = lastResponse.total

(***************************************************************************)
(* C16.  When the request has no page, combinePagination carries           *)
(* page_after_value from the request and next_page_after_value from the    *)
(* response, also when the response reports a page or a page_after_value.  *)
(***************************************************************************)
C16_CursorModeCarriesCursor ==
  (tablePhase = "combined" /\ lastRequest.page = undefined) =>
    /\ pagination.page_after_value = lastRequest.page_after_value
    /\ pagination.next_page_after_value = lastResponse.next_page_after_value

(***************************************************************************)
(* C17.  The pagination of a table, combined or default, and after any     *)
(* sequence of pagination actions, never defines both page and             *)
(* page_after_value.                                                       *)
(***************************************************************************)
C17_PageOrCursor ==
  tablePhase # "init" =>
    ~(pagination.page # undefined /\ pagination.page_after_value # undefined)

(***************************************************************************)
(* C18.  Toggling a row while the selection is 'all' gives the array that  *)
(* holds exactly that row.                                                 *)
(***************************************************************************)
C18_ToggleFromAll ==
  [][\A row \in Rows :
       (handleSelect(row) /\ selected.all) => selected' = SelectedRows(<<row>>)]_vars
C18_Witness ==
  /\ tablePhase = "used"
  /\ prevSelected.all
  /\ ~selected.all
  /\ Len(selected.rows) = 1

(***************************************************************************)
(* C19.  A load request (the load-more button, the infinite scroll)        *)
(* sets page_after_value to next_page_after_value when there is a next     *)
(* value that differs from page_after_value; otherwise, in particular      *)
(* while the two are equal, it changes nothing and gives no new            *)
(* pagination to the owner of the table.                                   *)
(***************************************************************************)
C19_LoadOncePerCursor ==
  [][(handleClick \/ handleLoadMore)
       => IF /\ pagination.next_page_after_value # undefined
             /\ pagination.page_after_value # pagination.next_page_after_value
            THEN /\ emitted'
                 /\ pagination' =
                      [pagination EXCEPT
                         !.page_after_value = pagination.next_page_after_value]
            ELSE ~emitted' /\ pagination' = pagination]_vars
C19_Witness ==
  /\ paginator = "scroll"
  /\ tablePhase = "used"
  /\ ~emitted
  /\ pagination.next_page_after_value # undefined
  /\ pagination.page_after_value = pagination.next_page_after_value

(***************************************************************************)
(* C20.  addColumnDefaults leaves every field a column declares as it is,  *)
(* sortable: false included, with or without moreDefaults; a field that    *)
(* neither the column nor moreDefaults give gets its default: the label    *)
(* made of the last segment of the key, the lookup along the key,          *)
(* sortable true, align 'center'.  Applying it twice gives what applying   *)
(* it once gives.                                                          *)
(***************************************************************************)
Filled(was, more, now, default) ==
  /\ was # undefined => now = was
  /\ (was = undefined /\ more = undefined) => now = default
C20_DefaultsOnlyForOmitted ==
  applied >= 1 =>
    /\ \A i \in DOMAIN declared :
         /\ columns[i].key = declared[i].key
         /\ Filled(declared[i].label, moreDefaults.label, columns[i].label,
                   Present(Label(Last(declared[i].key), TRUE, TRUE)))
         /\ Filled(declared[i].render, moreDefaults.render, columns[i].render,
                   Present(PathRender(declared[i].key)))
         /\ Filled(declared[i].sortable, moreDefaults.sortable, columns[i].sortable,
                   Present(TRUE))
         /\ Filled(declared[i].align, moreDefaults.align, columns[i].align,
                   Present("center"))
    /\ columns = addColumnDefaults(declared, moreDefaults)

(***************************************************************************)
(* C21.  The setter of results.material.elements writes at most one key:   *)
(* with the exclusive flag and a non-empty selection it writes             *)
(* elements_exclusive as the names in ascending order with single blanks   *)
(* between them, whatever the order of selection, and not elements;        *)
(* without the flag it writes elements as the selected set and never       *)
(* elements_exclusive.                                                     *)
(***************************************************************************)
Selected == {elements[i] : i \in DOMAIN elements}
\* The one ascending arrangement of a set of names
Ascending(names) ==
  CHOOSE a \in [1..Cardinality(names) -> names] :
    /\ {a[i] : i \in DOMAIN a} = names
    /\ \A i, j \in DOMAIN a : i < j => CodeUnitRank(a[i]) < CodeUnitRank(a[j])
C21_ElementsSetter ==
  elementsSet =>
    /\ elementsQuery.elements = undefined \/ elementsQuery.elements_exclusive = undefined
    /\ (exclusive /\ elements # <<>>) =>
         /\ elementsQuery.elements_exclusive = <<JoinBlank(Ascending(Selected))>>
         /\ elementsQuery.elements = undefined
    /\ ~exclusive =>
         /\ elementsQuery.elements = <<Selected>>
         /\ elementsQuery.elements_exclusive = undefined
C21_Witness ==
  /\ elementsSet
  /\ exclusive
  /\ elements = <<"Ti", "C", "H">>

(***************************************************************************)
(* C22.  The columns the table shows are declared columns in the order of  *)
(* their declaration, after any toggles; toggling the column just toggled  *)
(* once more gives the shown set from before; a toggle leaves pagination   *)
(* and selection as they are and gives no pagination to the owner.         *)
(***************************************************************************)
RangeOf(seq) == {seq[i] : i \in DOMAIN seq}
IsSubsequence(sub, seq) ==
  \E pos \in [DOMAIN sub -> DOMAIN seq] :
    /\ \A i \in DOMAIN sub : seq[pos[i]] = sub[i]
    /\ \A i, j \in DOMAIN sub : i < j => pos[i] < pos[j]
C22_ShownInDeclaredOrder ==
  IsSubsequence(ShownColumnsObjects(shownColumns), TableColumns)
C22_ToggleIsClientOnly ==
  [][\A i \in DOMAIN TableColumns :
       handleToggle(TableColumns[i]) =>
         /\ RangeOf(ShownColumnsObjects(
                      ToggleUpdate(ShownColumnsObjects(shownColumns'), TableColumns[i])))
              = RangeOf(ShownColumnsObjects(shownColumns))
         /\ RangeOf(ShownColumnsObjects(shownColumns'))
              # RangeOf(ShownColumnsObjects(shownColumns))
         /\ UNCHANGED tableVars]_vars
C22_ColumnToggles == []C22_ShownInDeclaredOrder /\ C22_ToggleIsClientOnly
C22_Witness ==
  /\ shownColumns = <<"upload_create_time", "entry_id">>
  /\ pagination.page # undefined

(***************************************************************************)
(* C23.  The tokens of a value are its cleaned form (lower case,           *)
(* underscores as blanks) and every suffix of it that starts right after   *)
(* a blank or a period, and no token is empty; filter(input) gives         *)
(* exactly the options with a token that starts with the cleaned input,    *)
(* by ascending length of the value, and nothing for an input shorter      *)
(* than the minimum length.                                                *)
(***************************************************************************)
C23_TokensOf(option) ==
  LET cleaned == Cleaned(option.value)
  IN /\ RangeOf(option.tokens) =
          {cleaned} \cup {From(cleaned, i + 1) :
                            i \in {j \in DOMAIN cleaned : cleaned[j] \in {Space, Period}}}
     /\ \A k \in DOMAIN option.tokens : option.tokens[k] # <<>>
C23_FilterOf ==
  IF Len(filterInput) < staticMinLength THEN filterResult = <<>>
  ELSE /\ RangeOf(filterResult) =
            {staticOptions[i] : i \in
               {j \in DOMAIN staticOptions :
                  \E k \in DOMAIN staticOptions[j].tokens :
                    startsWith(staticOptions[j].tokens[k], Cleaned(filterInput))}}
       /\ Len(filterResult) <= Len(staticOptions)
       /\ \A i, j \in DOMAIN filterResult :
            i < j => Len(filterResult[i].value) <= Len(filterResult[j].value)
C23_TokensAndFilter ==
  /\ suggestPhase # "none" => \A i \in DOMAIN staticOptions : C23_TokensOf(staticOptions[i])
  /\ suggestPhase = "filtered" => C23_FilterOf

C25_PaginationActions ==
  [][/\ \A size \in pageSizeValues :
          handleChangeRowsPerPage(NumberText(size)) =>
            /\ emitted'
            /\ pagination' =
                 [pagination EXCEPT !.page_size = Present(size), !.page = Present(1)]
     /\ \A p \in 0..(MaxPage - 1) :
          handleChangePage(p) =>
            emitted' /\ pagination' = [pagination EXCEPT !.page = Present(p + 1)]
     /\ \A column \in sortingColumns :
          createSortHandler(column) =>
            /\ emitted'
            /\ pagination' =
                 [pagination EXCEPT
                    !.order_by = Present(column),
                    !.order = IF /\ pagination.order_by = Present(column)
                                 /\ pagination.order = Present("asc")
                                THEN Present("desc") ELSE Present("asc")]]_vars
C25_Witness ==
  /\ emitted
  /\ pagination.order_by = Present("entry_id")
  /\ pagination.order = Present("desc")
  /\ pagination.page = Present(1)
  /\ pagination.page_size = Present(10)

(***************************************************************************)
(* C26.  A submission calls setFilter exactly when the input passes the    *)
(* validation: then once, with the full name of a filter of the bar and    *)
(* the value, and the input is cleared and the popup closed; otherwise     *)
(* not at all, and the input stays as it is, with an error text when the   *)
(* validation gave one.  Every input change clears the error text.         *)
(***************************************************************************)
C26_SubmitOutcome ==
  LET r == Submit(inputValue)
  IN IF r.kind = "ok"
       THEN /\ Len(setFilterCalls') = 1
            /\ setFilterCalls'[1].name \in quantitySet
            /\ setFilterCalls'[1].value = r.value
            /\ inputValue' = <<>>
            /\ ~open'
       ELSE /\ setFilterCalls' = <<>>
            /\ inputValue' = inputValue
            /\ r.kind = "error" => error' \in Messages
C27_NoDuplicates ==
  ~selected.all =>
    \A i, j \in DOMAIN selected.rows :
      selected.rows[i].entry_id = selected.rows[j].entry_id => i = j
C27_ToggleRow(row) ==
  LET list == selected.rows
      inList == \E i \in DOMAIN list : list[i].entry_id = row.entry_id
  IN /\ ~selected'.all
     /\ inList => selected'.rows = SelectSeq(list, LAMBDA r : r.entry_id # row.entry_id)
     /\ inList => Len(selected'.rows) = Len(list) - 1
     /\ ~inList => selected'.rows = Append(list, row)
     /\ RangeOf(SelectUpdate(selected', row).rows) = RangeOf(list)
C27_Toggles ==
  [][/\ \A row \in Rows : (handleSelect(row) /\ ~selected.all) => C27_ToggleRow(row)
     /\ handleSelectAllChanged =>
          selected' = IF selected.all THEN SelectedRows(<<>>) ELSE SelectedAll]_vars
C27_Selection == []C27_NoDuplicates /\ C27_Toggles
C27_Witness ==
  /\ ~prevSelected.all /\ Len(prevSelected.rows) = 2
  /\ ~selected.all /\ Len(selected.rows) = 1
  /\ selected.rows[1] = prevSelected.rows[2]

(***************************************************************************)
(* C28.  The loading indicator is on while a suggestion request is in      *)
(* flight, also after an earlier one of several requests has completed,    *)
(* and it is off when no issued request is in flight any more.             *)
(***************************************************************************)
C28_OnWhileInFlight == inflight # <<>> => loading
C28_OffWhenSettled == inflight = <<>> => ~loading
C28_LoadingTracksRequests == C28_OnWhileInFlight /\ C28_OffWhenSettled

ShallowEqual(a, b) == DOMAIN a = DOMAIN b /\ \A propName \in DOMAIN a : a[propName] = b[propName]
C30_Exact == equivAB = ShallowEqual(equivA, equivB)
C30_Symmetric == equivAB = equivBA
C30_SymmetricShallowEquality == C30_Exact /\ C30_Symmetric

====
